---- MODULE Spec2Model ----
(***************************************************************************)
(* Model of src/server.js, which holds three variants of the multi-account *)
(* automation bot:                                                         *)
(*   "cron"  lines    1- 805  cron-scheduled variant (globalState.users)   *)
(*   "tick"  lines  807-1501  tick-driven variant (userData, 30 s tick)    *)
(*   "loop"  lines 1503-1857  buy-spin loop variant (startSpinLoop)        *)
(* Times are milliseconds (Date.now()); "HH:MM" strings are sequences of   *)
(* four decimal digits.                                                    *)
(***************************************************************************)
EXTENDS Integers, Sequences, FiniteSets, Bags, TLC

VARIABLES
    variant,        \* which of the three programs of server.js is running
    probe,          \* arguments and result of the pure function under study
    logs,           \* userId -> that account's log (activityLog / logs), newest first
    activityLogs,   \* tick variant: the global activity log
    debugLogs,      \* tick and loop variants: the debug buffer
    logHist,        \* history: number of logActivity calls, the entries made per user id
    now,            \* Date.now(), in ms since 00:00 UTC of the first day
    userData,       \* userId -> account record (userData / globalState.users)
    usersFile,      \* users.json: userId -> refresh credential stored on disk
    tasks,          \* bag of suspended async invocations (each waits at an await)
    timers,         \* bag of pending setTimeout callbacks
    intervals,      \* setInterval callbacks: name -> next due time (NoTime: not started)
    hist            \* history: what the last step did, and the counts the bounds limit

pureVars == <<probe>>
logVars  == <<logs, activityLogs, debugLogs, logHist>>
sysVars  == <<now, userData, usersFile, tasks, timers, intervals, hist>>
vars     == <<variant, probe, logs, activityLogs, debugLogs, logHist,
              now, userData, usersFile, tasks, timers, intervals, hist>>

Null == 0           \* JavaScript null / undefined for tokens and timestamps

Min(a, b) == IF a <= b THEN a ELSE b
Max(a, b) == IF a >= b THEN a ELSE b

(***************************************************************************)
(* Program constants.                                                      *)
(***************************************************************************)
MinuteMs  == 60000
SecondMs  == 1000
CronLogCap == 500
TickLogCap == 200
LoopLogCap == 100
GlobalLogCap == 1000
DebugLogCap == 200

(***************************************************************************)
(* Bounds of the model.                                                    *)
(***************************************************************************)
MaxBase    == 2     \* baseInterval ranges over 0..MaxBase minutes
MaxScale   == 2     \* randomScale1/2 range over 0..MaxScale
RandDen    == 2     \* Math.random() ranges over k / RandDen, k in 0..RandDen-1
MaxAppends == 4     \* logActivity calls explored after the initial fill

(***************************************************************************)
(* Idle values of the state a specification does not use.                  *)
(***************************************************************************)
NoProbe == [fn |-> "none"]
LogIdle ==
    /\ logs = <<>>
    /\ activityLogs = <<>>
    /\ debugLogs = <<>>
    /\ logHist = [n |-> 0]
SysIdle ==
    /\ now = 0
    /\ userData = <<>>
    /\ usersFile = <<>>
    /\ tasks = EmptyBag
    /\ timers = EmptyBag
    /\ intervals = <<>>
    /\ hist = <<>>

(***************************************************************************)
(* Active-window evaluator.                                                *)
(***************************************************************************)
Digits == 0..9
\* "HH:MM" as its four digits; the colon is at the same place in every string
HHMM(h, m) == <<h \div 10, h % 10, m \div 10, m % 10>>

\* JavaScript's string comparison a <= b on two "HH:MM" strings: the first
\* differing character decides
RECURSIVE StrLeqFrom(_, _, _)
StrLeqFrom(a, b, i) ==
    IF i > Len(a) \/ i > Len(b) THEN Len(a) <= Len(b)
    ELSE IF a[i] # b[i] THEN a[i] < b[i]
    ELSE StrLeqFrom(a, b, i + 1)
StrLeq(a, b) == StrLeqFrom(a, b, 1)

\* now.toISOString().split('T')[1].substring(0, 5)
currentTimeHHMM(t) ==
    HHMM((t \div (60 * MinuteMs)) % 24, (t \div MinuteMs) % 60)

\* now.getUTCHours() * 60 + now.getUTCMinutes()
currentUTC(t) == (((t \div (60 * MinuteMs)) % 24) * 60) + ((t \div MinuteMs) % 60)

\* timeStr.split(':').map(Number); hours * 60 + minutes
timeToMinutes(s) == (s[1] * 10 + s[2]) * 60 + (s[3] * 10 + s[4])

\* cron variant, lines 144-155: the comparison is on the strings
isWithinActiveWindowCron(dayStart, dayEnd, t) ==
    /\ StrLeq(dayStart, currentTimeHHMM(t))
    /\ StrLeq(currentTimeHHMM(t), dayEnd)

\* mutant: the end of the window excluded
isWithinActiveWindowTickExclusive(dayStart, dayEnd, t) ==
    /\ currentUTC(t) >= timeToMinutes(dayStart)
    /\ currentUTC(t) < timeToMinutes(dayEnd)

\* tick variant, lines 1300-1310: the comparison is on minutes of the day
isWithinActiveWindowTick(dayStart, dayEnd, t) ==
    /\ currentUTC(t) >= timeToMinutes(dayStart)
    /\ currentUTC(t) <= timeToMinutes(dayEnd)

isWithinActiveWindow(v, dayStart, dayEnd, t) ==
    IF v = "cron" THEN isWithinActiveWindowCron(dayStart, dayEnd, t)
    ELSE isWithinActiveWindowTick(dayStart, dayEnd, t)

(***************************************************************************)
(* Jitter function.                                                        *)
(***************************************************************************)
\* Math.floor(Math.random() * (hi - lo) + lo) with Math.random() = k / RandDen
RandomFloor(k, lo, hi) == lo + ((k * (hi - lo)) \div RandDen)

\* cron variant, lines 198-203: randomScale in seconds
totalDelayMsCron(baseInterval, rs1, rs2, k) ==
    baseInterval * 60 * 1000 + RandomFloor(k, rs1, rs2) * 1000

\* mutant: the random scales of the tick variant taken as seconds
totalDelayMsTickSeconds(baseInterval, rs1, rs2, k) ==
    baseInterval * 60 * 1000 + RandomFloor(k, rs1 * 1000, rs2 * 1000)

\* tick variant, lines 1277-1287: randomScale in minutes
totalDelayMsTick(baseInterval, rs1, rs2, k) ==
    baseInterval * 60 * 1000 + RandomFloor(k, rs1 * 60 * 1000, rs2 * 60 * 1000)

\* new Date(Date.now() + totalDelayMs)
calculateNextSpinTime(v, baseInterval, rs1, rs2, k, t) ==
    t + (IF v = "cron" THEN totalDelayMsCron(baseInterval, rs1, rs2, k)
         ELSE totalDelayMsTick(baseInterval, rs1, rs2, k))

(***************************************************************************)
(* SpecWindow: isWithinActiveWindow on drawn configurations and times.     *)
(* The window and the clock are drawn as numbers; the action writes them   *)
(* the way the program holds them ("HH:MM" strings, a Date in ms).         *)
(***************************************************************************)
WindowHours   == {0, 9, 10, 23}
WindowMinutes == {0, 30, 59}
WindowSeconds == {0, 59}

InitWindow ==
    /\ variant \in {"cron", "tick"}
    /\ probe \in [fn : {"window"},
                  sh : WindowHours, sm : WindowMinutes,    \* dayStart
                  eh : WindowHours, em : WindowMinutes,    \* dayEnd
                  th : WindowHours, tm : WindowMinutes, ts : WindowSeconds,
                  done : {FALSE}, result : {FALSE}]
    /\ LogIdle
    /\ SysIdle

EvalWindow ==
    /\ probe.fn = "window"
    /\ ~probe.done
    /\ probe' = [probe EXCEPT !.done = TRUE,
                   !.result = isWithinActiveWindow(variant,
                                 HHMM(probe.sh, probe.sm), HHMM(probe.eh, probe.em),
                                 (probe.th * 60 + probe.tm) * MinuteMs
                                    + probe.ts * SecondMs)]
    /\ UNCHANGED <<variant, logVars, sysVars>>

SpecWindow == InitWindow /\ [][EvalWindow]_vars

\* C5: isWithinActiveWindow is true iff dayStart <= minute of the day <= dayEnd,
\* both ends inclusive; hence never true for a window with dayEnd < dayStart.
C5_WindowInclusive ==
    (probe.fn = "window" /\ probe.done) =>
        (probe.result <=>
            /\ probe.sh * 60 + probe.sm <= probe.th * 60 + probe.tm
            /\ probe.th * 60 + probe.tm <= probe.eh * 60 + probe.em)

\* the upper boundary case: the clock is inside the minute dayEnd, dayStart earlier
C5_Witness ==
    /\ probe.fn = "window" /\ probe.done /\ probe.result
    /\ probe.th = probe.eh /\ probe.tm = probe.em /\ probe.ts = 59
    /\ probe.sh * 60 + probe.sm < probe.eh * 60 + probe.em
    /\ variant = "tick"

(***************************************************************************)
(* SpecCalc: calculateNextSpinTime on drawn configurations.                *)
(***************************************************************************)
CalcTimes == {0, 90 * SecondMs}
ScenarioBase == 10   \* the base interval of the ten-minute scenario
BaseIntervals == 0..MaxBase \cup {ScenarioBase}

InitCalc ==
    /\ variant \in {"cron", "tick"}
    /\ probe \in [fn : {"calc"}, baseInterval : BaseIntervals,
                  rs1 : 0..MaxScale, rs2 : 0..MaxScale, t : CalcTimes,
                  done : {FALSE}, result : {Null}, k : {0}]
    /\ probe.rs1 <= probe.rs2
    /\ LogIdle
    /\ SysIdle

EvalCalc ==
    /\ probe.fn = "calc"
    /\ ~probe.done
    /\ \E k \in 0..(RandDen - 1) :
         probe' = [probe EXCEPT !.done = TRUE, !.k = k,
                     !.result = calculateNextSpinTime(variant, probe.baseInterval,
                                     probe.rs1, probe.rs2, k, probe.t)]
    /\ UNCHANGED <<variant, logVars, sysVars>>

SpecCalc == InitCalc /\ [][EvalCalc]_vars

\* C6: calculateNextSpinTime returns a timestamp strictly greater than the time
\* at which it is computed, for every baseInterval >= 0 and 0 <= rs1 <= rs2.
C6_StrictlyFuture ==
    (probe.fn = "calc" /\ probe.done) => probe.result > probe.t

(***************************************************************************)
(* Log rings.  An entry stands for {timestamp, userId, message}: ts is the  *)
(* number of the logActivity call that made it.                            *)
(***************************************************************************)
LogUsers  == {"u1", "u2"}
UnknownId == "SYSTEM"          \* logActivity('SYSTEM', ...): no such account

unshift(s, e) == <<e>> \o s
slice0(s, n)  == SubSeq(s, 1, Min(n, Len(s)))       \* s.slice(0, n)

\* mutant: the entry is pushed at the end of the array
logActivityCronPush(log, e) ==
    IF Len(log) + 1 > CronLogCap THEN slice0(log \o <<e>>, CronLogCap)
    ELSE log \o <<e>>

\* lines 129-134: unshift, then slice(0, 500) when longer than 500
logActivityCron(log, e) ==
    IF Len(unshift(log, e)) > CronLogCap THEN slice0(unshift(log, e), CronLogCap)
    ELSE unshift(log, e)

\* mutant: one entry too many is kept
logActivityTickLoose(log, e) == slice0(unshift(log, e), TickLogCap + 1)

\* lines 1342-1343
logActivityTick(log, e) == slice0(unshift(log, e), TickLogCap)

\* mutant: at the cap the previous newest entry is dropped, not the oldest
logActivityLoopDropNewest(log, e) ==
    IF Len(log) >= LoopLogCap THEN unshift(Tail(log), e) ELSE unshift(log, e)

\* lines 1790-1791
logActivityLoop(log, e) == slice0(unshift(log, e), LoopLogCap)

\* mutant: the entry is pushed at the end of the global log
logActivityGlobalPush(log, e) == slice0(log \o <<e>>, GlobalLogCap)

\* lines 1338-1339
logActivityGlobal(log, e) == slice0(unshift(log, e), GlobalLogCap)

UserLogCap(v) ==
    CASE v = "cron" -> CronLogCap [] v = "tick" -> TickLogCap [] OTHER -> LoopLogCap

\* the whole of logActivity(userId, message), on the record of the log state
logActivity(v, st, userId) ==
    LET e == [ts |-> st.hist.n + 1, userId |-> userId]
        known == userId \in DOMAIN st.logs
        userLog == CASE v = "cron" -> logActivityCron(st.logs[userId], e)
                     [] v = "tick" -> logActivityTick(st.logs[userId], e)
                     [] OTHER      -> logActivityLoop(st.logs[userId], e)
    IN [logs |-> IF known THEN [st.logs EXCEPT ![userId] = userLog] ELSE st.logs,
        activityLogs |-> IF v = "tick"
                         THEN logActivityGlobal(st.activityLogs, e)
                         ELSE st.activityLogs,
        debugLogs |-> IF v = "loop" THEN unshift(st.debugLogs, e) ELSE st.debugLogs,
        hist |-> [n |-> st.hist.n + 1,
                  last |-> [st.hist.last EXCEPT ![userId] = e]]]

NoEntry == [ts |-> 0, userId |-> ""]     \* no logActivity call made yet

EmptyLogState ==
    [logs |-> [u \in LogUsers |-> <<>>], activityLogs |-> <<>>, debugLogs |-> <<>>,
     hist |-> [n |-> 0, last |-> [u \in LogUsers \cup {UnknownId} |-> NoEntry]]]

\* the i-th call of the initial fill: u1 every second call, then u2, then SYSTEM
FillId(i) == IF i % 2 = 1 THEN "u1" ELSE IF i % 4 = 2 THEN "u2" ELSE UnknownId

\* numbers of fill calls after which any account may log: u1's log is then
\* empty, short of its cap, at its cap; the global log short of and at its cap
FillLens(v) ==
    {0, 2 * UserLogCap(v) - 3, 2 * UserLogCap(v) - 1, 2 * UserLogCap(v) + 1}
        \cup (IF v = "tick" THEN {GlobalLogCap - 1, GlobalLogCap + 1} ELSE {})
MaxFill(v) == IF v = "tick" THEN GlobalLogCap + 1 ELSE 2 * UserLogCap(v) + 1

InitLog ==
    /\ variant \in {"cron", "tick", "loop"}
    /\ logs = EmptyLogState.logs
    /\ activityLogs = <<>>
    /\ debugLogs = <<>>
    /\ logHist = [n |-> 0, free |-> 0, last |-> EmptyLogState.hist.last,
                  all |-> [u \in LogUsers \cup {UnknownId} |-> <<>>]]
    /\ probe = NoProbe
    /\ SysIdle

\* one call of logActivity(userId, ...).  The first calls follow the fill; from
\* a state in FillLens on, up to MaxAppends calls are made for any user id.
LogActivity(userId) ==
    /\ \/ /\ logHist.free = 0
          /\ logHist.n < MaxFill(variant)
          /\ userId = FillId(logHist.n + 1)
          /\ logHist' = [logHist EXCEPT !.n = @ + 1, !.last[userId] =
                            [ts |-> logHist.n + 1, userId |-> userId],
                            !.all[userId] = unshift(@, [ts |-> logHist.n + 1,
                                                        userId |-> userId])]
       \/ /\ logHist.free > 0 \/ logHist.n \in FillLens(variant)
          /\ logHist.free < MaxAppends
          /\ logHist' = [logHist EXCEPT !.n = @ + 1, !.free = @ + 1, !.last[userId] =
                            [ts |-> logHist.n + 1, userId |-> userId],
                            !.all[userId] = unshift(@, [ts |-> logHist.n + 1,
                                                        userId |-> userId])]
    /\ LET st == logActivity(variant,
                    [logs |-> logs, activityLogs |-> activityLogs,
                     debugLogs |-> debugLogs,
                     hist |-> [n |-> logHist.n, last |-> logHist.last]],
                    userId)
       IN /\ logs' = st.logs
          /\ activityLogs' = st.activityLogs
          /\ debugLogs' = st.debugLogs
    /\ UNCHANGED <<variant, probe, sysVars>>

\* debugLog, lines 841-842 and 1524-1525: unshift, then one pop when longer
\* than 200
debugLog(log, e) ==
    IF Len(unshift(log, e)) > DebugLogCap
    THEN SubSeq(unshift(log, e), 1, Len(log))
    ELSE unshift(log, e)

\* one call of debugLog(userId, ...), made by makeAPIRequest for a request
\* of the account (tick and loop variants)
DebugLog(userId) ==
    /\ variant \in {"tick", "loop"}
    /\ logHist.free > 0 \/ logHist.n \in FillLens(variant)
    /\ logHist.free < MaxAppends
    /\ logHist' = [logHist EXCEPT !.free = @ + 1]
    /\ debugLogs' = debugLog(debugLogs, [ts |-> logHist.n, userId |-> userId])
    /\ UNCHANGED <<variant, probe, sysVars, logs, activityLogs>>

NextLog ==
    \/ \E userId \in LogUsers \cup {UnknownId} : LogActivity(userId)
    \/ DebugLog("u1")

SpecLog == InitLog /\ [][NextLog]_vars

\* C7: each account's log is never longer than its cap (200 tick, 500 cron,
\* 100 loop) and the entry appended last for the account is at index 0.
C7_LogCapNewestFirst ==
    \A u \in DOMAIN logs :
        /\ Len(logs[u]) <= (CASE variant = "cron" -> 500 [] variant = "tick" -> 200
                              [] OTHER -> 100)
        /\ logHist.last[u] # NoEntry => (Len(logs[u]) > 0 /\ logs[u][1] = logHist.last[u])

\* an append to a log that was already full
C7_Witness ==
    /\ logHist.free > 0
    /\ variant = "cron"
    /\ \E u \in DOMAIN logs :
         /\ Len(logs[u]) = CronLogCap
         /\ logHist.last[u] # NoEntry
         /\ logHist.last[u].ts = logHist.n
         /\ logHist.n > 2 * CronLogCap

(***************************************************************************)
(* Tick-driven variant (lines 807-1501): accounts, API results, tasks.     *)
(***************************************************************************)
AllUsers == <<"u1", "u2">>
\* Object.keys(userData): the configured accounts, in the order of users.json
UserOrder(st) == SelectSeq(AllUsers, LAMBDA u : u \in DOMAIN st.ud)
Users == DOMAIN userData

NoTime      == -1      \* null lastRefresh / nextSpinTime
NotProvided == -1      \* the refresh credential 'Not provided'
ConfigCred  == 1       \* the refresh credential users.json holds at startup

RequestTimeoutMs == 10000
SpinTickMs       == 30000
FundsTickMs      == 60 * 60 * 1000
ImmediateDelayMs == 60000
ClaimDelayMs     == 800
BatchDelayMs     == 1500
BatchSize        == 3
DayMs            == 24 * 60 * MinuteMs
SecondAchievementsMs == 330 * MinuteMs         \* 5.5 * 60 * 60 * 1000

NumJwts      == 1      \* the refresh endpoint issues jwt 1..NumJwts
NumCreds     == 1      \* and replacement credentials ConfigCred+1..ConfigCred+NumCreds
MaxFaults    == 2      \* API results other than a complete success payload
MaxClaimable == 1      \* claimable identifiers a listing may hold
MaxListing   == 4      \* the same, where claimAchievements is under study
MaxManual    == 1      \* requests to the manual trigger endpoints
MaxLatencyMs == 0      \* longest time a request or a file operation stays pending
HorizonMs    == 90000  \* the clock is followed this far past the start of the window
StartupHorizonMs == 0  \* the same where two accounts are followed
Balance      == 7      \* the silvercoins balance the funds endpoint reports

\* the static configurations an account is drawn from
Configs ==
    { [dayStart |-> HHMM(0, 0), dayEnd |-> HHMM(0, 0),
       baseInterval |-> 0, randomScale1 |-> 0, randomScale2 |-> 0],
      [dayStart |-> HHMM(0, 0), dayEnd |-> HHMM(0, 2),
       baseInterval |-> 1, randomScale1 |-> 0, randomScale2 |-> 1],
      [dayStart |-> HHMM(1, 0), dayEnd |-> HHMM(1, 1),
       baseInterval |-> 0, randomScale1 |-> 0, randomScale2 |-> 0] }

\* loadUserConfig, lines 958-971
NewAccount(c) ==
    [dayStart |-> c.dayStart, dayEnd |-> c.dayEnd, baseInterval |-> c.baseInterval,
     randomScale1 |-> c.randomScale1, randomScale2 |-> c.randomScale2,
     refreshToken |-> ConfigCred,
     jwtToken |-> Null, lastRefresh |-> NoTime, nextSpinTime |-> NoTime,
     spinCount |-> 0, achievementsClaimed |-> 0, lastFunds |-> 0,
     isActive |-> FALSE]

\* The payload of the achievements endpoint: four categories, each absent
\* (<<>>) or a list of items [id, progress]; progress is "claim" (with
\* claimAvailable true), "done" (claimAvailable false) or "none" (no progress)
Categories == <<"achievements", "daily", "weekly", "monthly">>
NoListing  == [c \in {"achievements", "daily", "weekly", "monthly"} |-> <<>>]
Item(id, progress) == [id |-> id, progress |-> progress]

\* the j-th of n claimable items goes to achievements, monthly, daily in
\* turn, so that the ids do not ascend in listing order
Slot(n, r) == SelectSeq([j \in 1..n |-> j], LAMBDA j : j % 3 = r)
Claimables(n, r) == [x \in 1..Len(Slot(n, r)) |-> Item(10 + Slot(n, r)[x], "claim")]
\* with d, items that cannot be claimed stand around them
Pad(items, d) ==
    IF d THEN <<Item(1, "done")>> \o items \o <<Item(2, "none")>> ELSE items
Listing(n, d) ==
    [achievements |-> Pad(Claimables(n, 1), d),
     daily        |-> Pad(Claimables(n, 0), d),
     weekly       |-> IF d THEN <<Item(4, "done")>> ELSE <<>>,
     monthly      |-> Pad(Claimables(n, 2), d)]

\* the numbers of claimable identifiers the listings are drawn with
ListingSizes == IF probe.fn = "listing" THEN {0, MaxListing} ELSE 0..MaxClaimable

\* lines 1144-1156: the ids of the items whose progress has claimAvailable,
\* category after category
\* mutant: every item that has a progress counts
claimAvailableAny(item) == item.progress # "none"

\* line 1150: item.progress?.claimAvailable
claimAvailable(item) == item.progress = "claim"

RECURSIVE validIDsFrom(_, _)
validIDsFrom(listing, c) ==
    IF c > Len(Categories) THEN <<>>
    ELSE LET items == SelectSeq(listing[Categories[c]], claimAvailable)
         IN [x \in 1..Len(items) |-> items[x].id] \o validIDsFrom(listing, c + 1)
validIDs(listing) == validIDsFrom(listing, 1)

\* what makeAPIRequest returns (lines 981-1008): success with the payload's
\* fields, or failure with the HTTP status (Null: no response, a timeout)
OkRefresh    == [success : {TRUE}, status : {200}, jwt : 1..NumJwts,
                 refreshToken : {Null, NotProvided}
                                  \cup (ConfigCred + 1)..(ConfigCred + NumCreds),
                 hasData : {TRUE}, silvercoins : {0}, k : {0},
                 nullBody : {FALSE}, listing : {NoListing}]
OkNoJwt      == [success : {TRUE}, status : {200}, jwt : {Null}, refreshToken : {Null},
                 hasData : {TRUE, FALSE}, silvercoins : {0}, k : {0},
                 nullBody : {FALSE}, listing : {NoListing}]
Failure      == [success : {FALSE}, status : {401, 500, Null}, jwt : {Null},
                 refreshToken : {Null}, hasData : {FALSE}, silvercoins : {0}, k : {0},
                 nullBody : {FALSE}, listing : {NoListing}]
OkFunds      == [success : {TRUE}, status : {200}, jwt : {Null}, refreshToken : {Null},
                 hasData : {TRUE}, silvercoins : {Balance}, k : {0},
                 nullBody : {FALSE}, listing : {NoListing}]
OkNoData     == [success : {TRUE}, status : {200}, jwt : {Null}, refreshToken : {Null},
                 hasData : {FALSE}, silvercoins : {0}, k : {0},
                 nullBody : {FALSE}, listing : {NoListing}]
OkListing    == [success : {TRUE}, status : {200}, jwt : {Null}, refreshToken : {Null},
                 hasData : {TRUE}, silvercoins : {0}, k : {0},
                 nullBody : {FALSE}, listing : {Listing(n, d) : n \in ListingSizes, d \in BOOLEAN}]
\* a 2xx answer whose body is the JSON value null: response.data is null
OkNull       == [success : {TRUE}, status : {200}, jwt : {Null}, refreshToken : {Null},
                 hasData : {FALSE}, silvercoins : {0}, k : {0},
                 nullBody : {TRUE}, listing : {NoListing}]
OkPlain      == [success : {TRUE}, status : {200}, jwt : {Null}, refreshToken : {Null},
                 hasData : {TRUE}, silvercoins : {0}, k : {0},
                 nullBody : {FALSE}, listing : {NoListing}]

RefreshResults == OkRefresh \cup OkNoJwt \cup Failure
                      \cup (IF probe.fn = "startup" THEN OkNull ELSE {})
FundsResults   == OkFunds \cup OkNoData \cup Failure
                      \cup (IF probe.fn = "startup" THEN OkNull ELSE {})
SpinResults    == OkPlain \cup OkNoData \cup Failure
ListingResults == OkListing \cup OkNoData \cup Failure
ClaimResults   == OkPlain \cup Failure

\* a suspended async invocation: root is what started it (the startup loop,
\* a tick, a timer callback, a manual endpoint), fn the executor it runs for
\* account u, pc the await it is suspended at
NewTask(root, idx, fn, u) ==
    [root |-> root, idx |-> idx, fn |-> fn, u |-> u, pc |-> "start",
     jwt |-> Null,          \* the x-user-jwt header built at the call
     refreshes |-> 0,       \* refreshToken calls made for the originating call
     t0 |-> NoTime,         \* time of the call of executeSpin
     due |-> NoTime,        \* request timeout, or end of a timed wait
     newRt |-> Null, snap |-> <<>>,     \* updateUserConfig: value, file read
     k |-> 0, i |-> 0, claimed |-> 0,   \* claimAchievements: validIDs.length, index,
     ids |-> <<>>,                      \*   totalClaimed, validIDs
     sent |-> <<>>,         \* history: the ids claim requests were sent for
     acks |-> <<>>,         \* history: whether each of these claims succeeded
     sends |-> 0]           \* history: requests sent with the x-user-jwt header

NoEvent ==
    [refresh |-> [u |-> "", kind |-> "none", jwt |-> Null, refreshToken |-> Null],
     refreshRet |-> [u |-> "", ret |-> "none"],
     spin |-> [u |-> "", root |-> "", t0 |-> NoTime, next |-> NoTime],
     ret |-> [fn |-> "", u |-> "", val |-> NoTime, sent |-> <<>>, ids |-> <<>>,
              acks |-> <<>>],
     listing |-> [u |-> "", seen |-> FALSE, data |-> NoListing],
     claim |-> [u |-> "", status |-> Null],
     request |-> [u |-> "", fn |-> ""],
     answer |-> [u |-> "", fn |-> "", status |-> Null],
     exit |-> [u |-> ""],
     window |-> [u |-> "", status |-> FALSE, logged |-> 0],
     funds |-> [u |-> "", kind |-> "none", silvercoins |-> 0],
     raised |-> [u |-> "", fn |-> ""],
     stale |-> FALSE, fault |-> 0]

\* the state a step works on; h.ev describes the step being taken
Cur == [ud |-> userData, file |-> usersFile, tasks |-> tasks, timers |-> timers,
        iv |-> intervals, h |-> [hist EXCEPT !.ev = NoEvent]]

Without(st, t) == [st EXCEPT !.tasks = @ (-) SetToBag({t})]
Suspend(st, t) == [st EXCEPT !.tasks = @ (+) SetToBag({t})]
AddTimer(st, kind, u, due) ==
    [st EXCEPT !.timers = @ (+) SetToBag({[kind |-> kind, u |-> u, due |-> due]})]

InWindow(st, u) == isWithinActiveWindowTick(st.ud[u].dayStart, st.ud[u].dayEnd, now)

\* when a request sent now is answered at the latest (timeout: 10000)
Deadline == now + Min(MaxLatencyMs, RequestTimeoutMs)

\* makeAPIRequest with an x-user-jwt header: await axios(..., timeout: 10000)
SendTokenRequest(st, t, pc) ==
    Suspend([st EXCEPT !.h.ev.stale = @ \/ ~st.ud[t.u].isActive,
                       !.h.ev.request = [u |-> t.u, fn |-> t.fn]],
            [t EXCEPT !.pc = pc, !.due = Deadline, !.sends = @ + 1])

\* lines 1272-1297; k / RandDen is the value Math.random() returns
setNextSpinTime(st, u, rnd) ==
    [st EXCEPT !.ud[u].nextSpinTime =
        calculateNextSpinTime("tick", st.ud[u].baseInterval, st.ud[u].randomScale1,
                              st.ud[u].randomScale2, rnd[u], now)]

\* mutant: the day is not advanced
scheduleNextTokenRefreshToday(st, u) ==
    AddTimer(st, "refresh", u,
             (now \div DayMs) * DayMs + timeToMinutes(st.ud[u].dayStart) * MinuteMs)

\* lines 1057-1077: tomorrow at dayStart
scheduleNextTokenRefresh(st, u) ==
    AddTimer(st, "refresh", u,
             ((now \div DayMs) + 1) * DayMs + timeToMinutes(st.ud[u].dayStart) * MinuteMs)

\* lines 1403-1432: today at dayEnd, tomorrow if that is not after now
scheduleEndOfDayAchievements(st, u) ==
    LET today == (now \div DayMs) * DayMs + timeToMinutes(st.ud[u].dayEnd) * MinuteMs
    IN AddTimer(st, "endOfDay", u, IF today <= now THEN today + DayMs ELSE today)

RECURSIVE Resume(_, _, _)

\* lines 1011-1027: refreshToken up to its await
refreshToken(st, t) ==
    Suspend(st, [t EXCEPT !.pc = "rf_request", !.due = Deadline])

(***************************************************************************)
(* checkFunds, lines 1080-1111.                                            *)
(***************************************************************************)
\* executor t.fn returns val (NoTime: null) to its caller
Return(st, t, val, rnd) ==
    Resume([st EXCEPT !.h.ev.ret = [fn |-> t.fn, u |-> t.u, val |-> val,
                                    sent |-> t.sent, ids |-> t.ids,
                                    acks |-> t.acks]], t, rnd)

checkFunds(st, t, rnd) ==
    IF st.ud[t.u].jwtToken = Null THEN Return(st, t, NoTime, rnd)
    ELSE SendTokenRequest(st, [t EXCEPT !.jwt = st.ud[t.u].jwtToken], "request")

\* the answer to the funds request: a balance, a 401, or any other failure
FundsAnswer(res) ==
    IF res.success /\ res.hasData THEN "ok"
    ELSE IF res.status = 401 THEN "unauthorized" ELSE "failed"

\* lines 1091-1110.  Line 1093 reads result.data.data: when the body of a
\* 2xx answer is null that raises a TypeError, which nothing in checkFunds
\* catches; the call ends there and its caller does not go on
FundsResult(st0, t, res, rnd) ==
    LET st == [st0 EXCEPT !.h.ev.funds = [u |-> t.u, kind |-> FundsAnswer(res),
                                          silvercoins |-> res.silvercoins]]
    IN IF res.nullBody THEN [st EXCEPT !.h.ev.raised = [u |-> t.u, fn |-> "checkFunds"]]
       ELSE IF res.success /\ res.hasData
       THEN Return([st EXCEPT !.ud[t.u].lastFunds = res.silvercoins], t, res.silvercoins,
                   rnd)
       ELSE IF res.status = 401
            THEN refreshToken(st, [t EXCEPT !.refreshes = @ + 1])
            ELSE Return(st, t, NoTime, rnd)

(***************************************************************************)
(* claimAchievements, lines 1113-1197.                                     *)
(***************************************************************************)
claimAchievements(st, t, rnd) ==
    IF st.ud[t.u].jwtToken = Null THEN Return(st, t, 0, rnd)
    ELSE SendTokenRequest(st, [t EXCEPT !.jwt = st.ud[t.u].jwtToken, !.claimed = 0],
                          "request")

\* lines 1169-1171: the claim request for the next id of validIDs
SendClaim(st, t) ==
    SendTokenRequest(st, [t EXCEPT !.i = @ + 1, !.sent = Append(@, t.ids[t.i + 1])],
                     "claim_request")

\* lines 1130-1172: the listing arrives; the first claim request is sent.  A
\* payload without data raises a TypeError, which the catch block turns into 0
ListingResult(st, t, res, rnd) ==
    IF ~res.success
    THEN IF res.status = 401
         THEN refreshToken(st, [t EXCEPT !.refreshes = @ + 1])
         ELSE Return(st, t, 0, rnd)
    ELSE IF ~res.hasData THEN Return(st, t, 0, rnd)
    ELSE LET ids == validIDs(res.listing)
             st1 == [st EXCEPT !.h.ev.listing = [u |-> t.u, seen |-> TRUE, data |-> res.listing]]
         IN IF Len(ids) = 0 THEN Return(st1, t, 0, rnd)
            ELSE SendClaim(st1, [t EXCEPT !.ids = ids, !.k = Len(ids), !.i = 0,
                                          !.sent = <<>>, !.acks = <<>>])

\* mutant: a failed claim is counted too
ClaimResultCountingAll(st, t, res) ==
    Suspend([st EXCEPT !.h.ev.claim = [u |-> t.u, status |-> res.status]],
            [t EXCEPT !.claimed = @ + 1, !.acks = Append(@, res.success),
                      !.pc = "claim_delay", !.due = now + ClaimDelayMs])

\* lines 1172-1182: one claim answered, then the 800 ms wait
ClaimResult(st, t, res) ==
    Suspend([st EXCEPT !.h.ev.claim = [u |-> t.u, status |-> res.status]],
            [t EXCEPT !.claimed = IF res.success THEN @ + 1 ELSE @,
                      !.acks = Append(@, res.success),
                      !.pc = "claim_delay", !.due = now + ClaimDelayMs])

\* lines 1182-1186: after the 800 ms wait, the next claim of the batch or
\* the 1500 ms wait that ends the batch
ClaimDelayElapsed(st, t) ==
    IF t.i % BatchSize # 0 /\ t.i < t.k
    THEN SendClaim(st, t)
    ELSE Suspend(st, [t EXCEPT !.pc = "batch_delay", !.due = now + BatchDelayMs])

\* lines 1167-1191: after the 1500 ms wait, the next batch or the end
BatchDelayElapsed(st, t, rnd) ==
    IF t.i < t.k
    THEN SendClaim(st, t)
    ELSE Return([st EXCEPT !.ud[t.u].achievementsClaimed = @ + t.claimed], t,
                t.claimed, rnd)

(***************************************************************************)
(* executeSpin, lines 1200-1269.                                           *)
(***************************************************************************)
\* return of executeSpin
SpinReturn(st, t, rnd) ==
    Resume([st EXCEPT !.h.ev.spin = [u |-> t.u, root |-> t.root, t0 |-> t.t0,
                                     next |-> st.ud[t.u].nextSpinTime]], t, rnd)

executeSpin(st, t0, rnd) ==
    LET t == [t0 EXCEPT !.t0 = now]
    IN IF st.ud[t.u].jwtToken = Null THEN SpinReturn(setNextSpinTime(st, t.u, rnd), t, rnd)
       ELSE IF ~InWindow(st, t.u) THEN SpinReturn(st, t, rnd)
       ELSE SendTokenRequest(st, [t EXCEPT !.jwt = st.ud[t.u].jwtToken], "request")

\* lines 1226-1268; a payload without data raises a TypeError that the catch
\* block logs; the finally block runs in every case
SpinResult(st, t, res, rnd) ==
    IF ~res.success /\ res.status = 401
    THEN refreshToken(st, [t EXCEPT !.refreshes = @ + 1])
    ELSE IF res.success /\ res.hasData
         THEN SpinReturn(setNextSpinTime([st EXCEPT !.ud[t.u].spinCount = @ + 1], t.u, rnd),
                         t, rnd)
         ELSE SpinReturn(setNextSpinTime(st, t.u, rnd), t, rnd)

(***************************************************************************)
(* refreshToken, lines 1011-1054, and updateUserConfig, lines 1318-1331.   *)
(***************************************************************************)
\* return of refreshToken to the executor that awaited it
RefreshReturn(st0, t, ok, rnd) ==
    LET st == [st0 EXCEPT !.h.refreshDone[t.u] = IF ok THEN "ok" ELSE "fail",
                          !.h.ev.refreshRet = [u |-> t.u,
                                               ret |-> IF ok THEN "true" ELSE "false"]]
    IN CASE t.fn = "checkFunds" ->
              IF ok THEN checkFunds(st, t, rnd)
              ELSE Return(st, t, NoTime, rnd)
         [] t.fn = "claimAchievements" ->
              IF ok THEN claimAchievements(st, t, rnd)
              ELSE Return(st, t, 0, rnd)
         [] t.fn = "executeSpin" -> SpinReturn(setNextSpinTime(st, t.u, rnd), t, rnd)
         [] OTHER -> Resume(st, t, rnd)

\* line 1029: result.data.data of a null body raises a TypeError inside
\* refreshToken.  claimAchievements (line 1193) and executeSpin (lines
\* 1261-1266) catch it; checkFunds, the timer callback and the manual
\* endpoint let it go, which ends their callback; initializeApp catches it
\* at line 921, after its loop and the three start calls have been skipped
RefreshThrows(st0, t, rnd) ==
    LET st == [st0 EXCEPT !.h.refreshDone[t.u] = "threw"]
    IN CASE t.fn = "claimAchievements" -> Return(st, t, 0, rnd)
         [] t.fn = "executeSpin" -> SpinReturn(setNextSpinTime(st, t.u, rnd), t, rnd)
         [] OTHER -> st

\* lines 1043-1048
RefreshSucceeded(st, t, rnd) ==
    RefreshReturn(scheduleNextTokenRefresh(st, t.u), t, TRUE, rnd)

\* mutant: the refresh time is not recorded
storeJwtNoStamp(acct, jwt, t) ==
    [acct EXCEPT !.jwtToken = jwt, !.isActive = TRUE]

\* lines 1033-1035
storeJwt(acct, jwt, t) ==
    [acct EXCEPT !.jwtToken = jwt, !.lastRefresh = t, !.isActive = TRUE]

\* mutant: the stale token is dropped with the flag
markInactiveClearing(acct) ==
    [acct EXCEPT !.isActive = FALSE, !.jwtToken = Null]

\* line 1052
markInactive(acct) ==
    [acct EXCEPT !.isActive = FALSE]

\* mutant: any 2xx answer counts as a refresh
hasNewJwtAnyPayload(res) == res.success

\* lines 1029 and 1605: result.success && result.data.data?.jwt
hasNewJwt(res) == res.success /\ res.jwt # Null

\* lines 1029-1053 up to the await of updateUserConfig
RefreshResult(st0, t, res, rnd) ==
    LET st == [st0 EXCEPT !.h.ev.refresh =
                  [u |-> t.u, jwt |-> res.jwt, refreshToken |-> res.refreshToken,
                   kind |-> IF res.nullBody THEN "threw"
                            ELSE IF res.success /\ res.jwt # Null THEN "ok" ELSE "fail"]]
    IN IF res.nullBody THEN RefreshThrows(st, t, rnd)
       ELSE IF hasNewJwt(res)
       THEN LET st1 == [st EXCEPT !.ud[t.u] = storeJwt(@, res.jwt, now)]
            IN IF res.refreshToken # Null /\ res.refreshToken # NotProvided
               THEN Suspend([st1 EXCEPT !.ud[t.u].refreshToken = res.refreshToken],
                            [t EXCEPT !.pc = "rf_readFile", !.due = now + MaxLatencyMs,
                                      !.newRt = res.refreshToken])
               ELSE RefreshSucceeded(st1, t, rnd)
       ELSE RefreshReturn([st EXCEPT !.ud[t.u] = markInactive(@)], t, FALSE, rnd)

\* lines 1320-1326: the file is read; the text to write holds the new value
ReadFileDone(st, t) ==
    Suspend(st, [t EXCEPT !.pc = "rf_writeFile", !.due = now + MaxLatencyMs,
                          !.snap = [st.file EXCEPT ![t.u] = t.newRt]])

\* line 1326 completes; refreshToken goes on at line 1043
WriteFileDone(st, t, rnd) ==
    RefreshSucceeded([st EXCEPT !.file = t.snap], [t EXCEPT !.snap = <<>>], rnd)

(***************************************************************************)
(* The callers: startup, intervals, timers.                                *)
(***************************************************************************)
\* mutant: the tick spins whatever nextSpinTime says
spinDueAlways(acct, t) == TRUE

\* line 1363: !user.nextSpinTime || new Date() >= new Date(user.nextSpinTime)
spinDue(acct, t) == acct.nextSpinTime = NoTime \/ t >= acct.nextSpinTime

\* lines 1354-1368, from the i-th account on, up to the next await
RECURSIVE SpinLoop(_, _, _)
SpinLoop(st, i, rnd) ==
    IF i > Len(UserOrder(st)) THEN st
    ELSE LET u == UserOrder(st)[i]
         IN IF ~st.ud[u].isActive \/ ~InWindow(st, u) THEN SpinLoop(st, i + 1, rnd)
            ELSE IF spinDue(st.ud[u], now)
                 THEN executeSpin(st, NewTask("spinTick", i, "executeSpin", u), rnd)
                 ELSE SpinLoop(st, i + 1, rnd)

\* lines 1371-1377
RECURSIVE FundsLoop(_, _, _)
FundsLoop(st, i, rnd) ==
    IF i > Len(UserOrder(st)) THEN st
    ELSE LET u == UserOrder(st)[i]
         IN IF InWindow(st, u) /\ st.ud[u].isActive
            THEN checkFunds(st, NewTask("fundsTick", i, "checkFunds", u), rnd)
            ELSE FundsLoop(st, i + 1, rnd)

\* lines 1384-1399
RECURSIVE scheduleAchievementsFromStart(_, _)
scheduleAchievementsFromStart(st, i) ==
    IF i > Len(UserOrder(st)) THEN st
    ELSE LET u == UserOrder(st)[i]
         IN IF st.ud[u].isActive
            THEN scheduleAchievementsFromStart(
                    scheduleEndOfDayAchievements(
                        AddTimer(st, "second", u, now + SecondAchievementsMs), u),
                    i + 1)
            ELSE scheduleAchievementsFromStart(st, i + 1)

\* lines 906-919: the startup refreshes one account after the other, then
\* startImmediateOperations, startScheduledTasks, startContinuousOperations
initializeApp(st, i) ==
    IF i <= Len(UserOrder(st))
    THEN refreshToken(st, NewTask("initializeApp", i, "refreshToken", UserOrder(st)[i]))
    ELSE [scheduleAchievementsFromStart(
              AddTimer(st, "immediate", "", now + ImmediateDelayMs), 1)
            EXCEPT !.iv = [spin |-> now + SpinTickMs, funds |-> now + FundsTickMs]]

\* lines 931-949: the callback of startImmediateOperations
RECURSIVE startImmediateOperations(_, _, _)
startImmediateOperations(st, i, rnd) ==
    IF i > Len(UserOrder(st)) THEN st
    ELSE LET u == UserOrder(st)[i]
             st1 == claimAchievements(st, NewTask("timer", 0, "claimAchievements", u), rnd)
             st2 == checkFunds(st1, NewTask("timer", 0, "checkFunds", u), rnd)
             st3 == IF st2.ud[u].nextSpinTime = NoTime THEN setNextSpinTime(st2, u, rnd) ELSE st2
         IN IF st.ud[u].isActive /\ InWindow(st, u)
            THEN startImmediateOperations(st3, i + 1, rnd)
            ELSE startImmediateOperations(st, i + 1, rnd)

\* the callbacks of the setTimeout calls, lines 1071-1074, 1389-1394, 1421-1429
TimerCallback(st, tm, rnd) ==
    CASE tm.kind = "immediate" -> startImmediateOperations(st, 1, rnd)
      [] tm.kind = "refresh" ->
           refreshToken(st, NewTask("timer", 0, "refreshToken", tm.u))
      [] tm.kind = "second" ->
           IF InWindow(st, tm.u) /\ st.ud[tm.u].isActive
           THEN claimAchievements(st, NewTask("timer", 0, "claimAchievements", tm.u), rnd)
           ELSE st
      [] OTHER ->
           IF st.ud[tm.u].isActive
           THEN scheduleEndOfDayAchievements(
                    claimAchievements(st, NewTask("timer", 0, "claimAchievements", tm.u),
                                      rnd), tm.u)
           ELSE st

\* the executor of task t has returned: its caller goes on
Resume(st, t, rnd) ==
    CASE t.root = "initializeApp" -> initializeApp(st, t.idx + 1)
      [] t.root = "spinTick"      -> SpinLoop(st, t.idx + 1, rnd)
      [] t.root = "fundsTick"     -> FundsLoop(st, t.idx + 1, rnd)
      [] OTHER                    -> st

(***************************************************************************)
(* SpecTick: the tick-driven variant as a state machine.  A step is the    *)
(* synchronous run of one callback up to its next await.                   *)
(***************************************************************************)
Rnd == [Users -> 0..(RandDen - 1)]

NoTasks == [ud |-> <<>>, file |-> <<>>, tasks |-> EmptyBag, timers |-> EmptyBag,
            iv |-> [spin |-> NoTime, funds |-> NoTime], h |-> <<>>]

\* app.listen's callback has run initializeApp up to its first refreshToken
InitAccounts(p, ids, configs) ==
    /\ variant = "tick"
    /\ probe = p
    /\ LogIdle
    /\ now = 0
    /\ userData \in [ids -> {NewAccount(c) : c \in configs}]
    /\ usersFile = [u \in Users |-> ConfigCred]
    /\ tasks = initializeApp([NoTasks EXCEPT !.ud = userData], 1).tasks
    /\ timers = EmptyBag
    /\ intervals = [spin |-> NoTime, funds |-> NoTime]
    /\ hist = [ev |-> NoEvent, refreshDone |-> [u \in Users |-> "none"], manual |-> 0,
               faults |-> 0, stopped |-> [u \in Users |-> FALSE]]

\* the results that are not a complete success payload are counted
IsFault(t, res) ==
    IF t.pc = "rf_request" THEN ~res.success \/ res.jwt = Null
    ELSE ~res.success \/ ~res.hasData
FaultAllowed(t, res) == IsFault(t, res) => hist.faults < MaxFaults

\* the state in which the answer res to the request of task t is handled
Answered(t, res) ==
    [Without(Cur, t) EXCEPT !.h.ev.fault = IF IsFault(t, res) THEN 1 ELSE 0]

InitTick == InitAccounts(NoProbe, {"u1"}, Configs)

Commit(st) ==
    /\ \E s \in {st} :
         /\ userData' = s.ud
         /\ usersFile' = s.file
         /\ tasks' = s.tasks
         /\ timers' = s.timers
         /\ intervals' = s.iv
         /\ hist' = [s.h EXCEPT !.faults = @ + s.h.ev.fault]
    /\ UNCHANGED <<variant, probe, logVars, now>>

\* the event loop runs the callbacks of the timers and intervals that are
\* due before it handles responses, file operations and incoming requests
TimerDue ==
    \/ \E n \in DOMAIN intervals : intervals[n] # NoTime /\ now >= intervals[n]
    \/ \E tm \in BagToSet(timers) : now >= tm.due
    \/ \E t \in BagToSet(tasks) : /\ t.pc \in {"claim_delay", "batch_delay", "wait_spin", "wait_buy"}
                                   /\ now >= t.due

Waiting(fn, pc) == {t \in BagToSet(tasks) : ~TimerDue /\ t.fn = fn /\ t.pc = pc}
Refreshing      == {t \in BagToSet(tasks) : ~TimerDue /\ t.pc = "rf_request"}
Delayed(pc)     == {t \in BagToSet(tasks) : t.pc = pc /\ now >= t.due}
Filing(pc)      == {t \in BagToSet(tasks) : ~TimerDue /\ t.pc = pc}

\* the refresh endpoint answers, or the request times out
RefreshResponse ==
    /\ variant = "tick"
    /\ \E t \in Refreshing, res \in RefreshResults, rnd \in Rnd :
         /\ FaultAllowed(t, res)
         /\ Commit(RefreshResult(Answered(t, res), t, res, rnd))

ConfigFileRead ==
    /\ variant = "tick"
    /\ \E t \in Filing("rf_readFile") :
         Commit(ReadFileDone(Without(Cur, t), t))

ConfigFileWritten ==
    /\ variant = "tick"
    /\ \E t \in Filing("rf_writeFile"), rnd \in Rnd :
         Commit(WriteFileDone(Without(Cur, t), t, rnd))

FundsResponse ==
    /\ variant = "tick"
    /\ \E t \in Waiting("checkFunds", "request"), res \in FundsResults, rnd \in Rnd :
         /\ FaultAllowed(t, res)
         /\ Commit(FundsResult(Answered(t, res), t, res, rnd))

ListingResponse ==
    /\ variant = "tick"
    /\ \E t \in Waiting("claimAchievements", "request"), res \in ListingResults,
          rnd \in Rnd :
         /\ FaultAllowed(t, res)
         /\ Commit(ListingResult(Answered(t, res), t, res, rnd))

ClaimResponse ==
    /\ variant = "tick"
    /\ \E t \in Waiting("claimAchievements", "claim_request"), res \in ClaimResults :
         /\ FaultAllowed(t, res)
         /\ Commit(ClaimResult(Answered(t, res), t, res))

ClaimWaitOver ==
    /\ variant = "tick"
    /\ \E t \in Delayed("claim_delay") :
         Commit(ClaimDelayElapsed(Without(Cur, t), t))

BatchWaitOver ==
    /\ variant = "tick"
    /\ \E t \in Delayed("batch_delay"), rnd \in Rnd :
         Commit(BatchDelayElapsed(Without(Cur, t), t, rnd))

SpinResponse ==
    /\ variant = "tick"
    /\ \E t \in Waiting("executeSpin", "request"), res \in SpinResults, rnd \in Rnd :
         /\ FaultAllowed(t, res)
         /\ Commit(SpinResult(Answered(t, res), t, res, rnd))

\* the setInterval callbacks of startContinuousOperations
SpinTick ==
    /\ variant = "tick"
    /\ intervals.spin # NoTime /\ now >= intervals.spin
    /\ \E rnd \in Rnd :
         Commit(SpinLoop([Cur EXCEPT !.iv.spin = @ + SpinTickMs], 1, rnd))

FundsTick ==
    /\ variant = "tick"
    /\ intervals.funds # NoTime /\ now >= intervals.funds
    /\ \E rnd \in Rnd :
         Commit(FundsLoop([Cur EXCEPT !.iv.funds = @ + FundsTickMs], 1, rnd))

TimerFires ==
    /\ variant = "tick"
    /\ \E tm \in BagToSet(timers), rnd \in Rnd :
         /\ now >= tm.due
         /\ Commit(TimerCallback([Cur EXCEPT !.timers = @ (-) SetToBag({tm})], tm, rnd))

\* the manual trigger endpoints, lines 1471-1493
Manual(fn, u) ==
    /\ variant = "tick"
    /\ hist.manual < MaxManual /\ ~TimerDue
    /\ now = 0 \/ \E a \in Users : InWindow(Cur, a)
    /\ \E rnd \in Rnd :
         LET st == [Cur EXCEPT !.h.manual = @ + 1]
             t  == NewTask("manual", 0, fn, u)
         IN Commit(CASE fn = "refreshToken"      -> refreshToken(st, t)
                     [] fn = "executeSpin"       -> executeSpin(st, t, rnd)
                     [] fn = "claimAchievements" -> claimAchievements(st, t, rnd)
                     [] OTHER                    -> checkFunds(st, t, rnd))

ManualRefresh == \E u \in Users : Manual("refreshToken", u)
ManualSpin    == \E u \in Users : Manual("executeSpin", u)
ManualClaim   == \E u \in Users : Manual("claimAchievements", u)
ManualFunds   == \E u \in Users : Manual("checkFunds", u)

\* the times at which a timer, an interval, a timed wait or a request
\* timeout is due
EventTimes ==
    {intervals[n] : n \in DOMAIN intervals}
        \cup {tm.due : tm \in BagToSet(timers)}
        \cup {t.due : t \in BagToSet(tasks)}

\* the clock is followed until HorizonMs after the last window has opened
Horizon ==
    LET starts == {timeToMinutes(userData[u].dayStart) * MinuteMs : u \in Users}
    IN (CHOOSE e \in starts : \A f \in starts : f <= e)
          + (IF probe.fn = "startup" THEN StartupHorizonMs ELSE HorizonMs)

\* the clock moves to the next such time once nothing is due any more
AdvanceClock ==
    /\ variant = "tick"
    /\ \A d \in EventTimes : d = NoTime \/ d > now
    /\ \E d \in EventTimes :
         /\ d > now /\ d <= Horizon
         /\ \A e \in EventTimes : e > now => d <= e
         /\ now' = d
    /\ hist' = [hist EXCEPT !.ev = NoEvent]
    /\ UNCHANGED <<variant, probe, logVars, userData, usersFile, tasks, timers,
                   intervals>>

NextTick ==
    \/ RefreshResponse \/ ConfigFileRead \/ ConfigFileWritten
    \/ FundsResponse \/ ListingResponse \/ ClaimResponse
    \/ ClaimWaitOver \/ BatchWaitOver \/ SpinResponse
    \/ SpinTick \/ FundsTick \/ TimerFires
    \/ ManualRefresh \/ ManualSpin \/ ManualClaim \/ ManualFunds
    \/ AdvanceClock

SpecTick == InitTick /\ [][NextTick]_vars

\* the event loop runs every callback that is due, every request is answered
\* or times out, and the clock goes on
SpecTickFair == SpecTick /\ WF_vars(NextTick)

\* the same program where the listings hold up to MaxListing claimable items,
\* for the account whose window opens at 01:00
InitListing == InitAccounts([fn |-> "listing"], {"u1"}, {c \in Configs : c.dayStart = HHMM(1, 0)})
SpecListing == InitListing /\ [][NextTick]_vars

\* the same program with two accounts, one with the window that opens at
\* 01:00 and one with the window 00:00-00:00, where the refresh endpoint may
\* also answer with a null body
InitStartup ==
    /\ InitAccounts([fn |-> "startup"], {"u1", "u2"}, Configs)
    /\ userData["u1"].dayStart = HHMM(1, 0)
    /\ userData["u2"].dayEnd = HHMM(0, 0)
SpecStartup == InitStartup /\ [][NextTick]_vars

(***************************************************************************)
(* Buy-spin loop variant (lines 1503-1857).                                *)
(***************************************************************************)
StartDelayMs == 20000
LoopWaitMs   == 7000
LoopSpanMs   == 41000  \* the clock of the loop variant is followed this far

\* loadUserConfig, lines 1548-1558; lastError "" stands for null
LoopAccount ==
    [refreshToken |-> ConfigCred, jwtToken |-> Null, isActive |-> FALSE,
     spinCount |-> 0, packsOpened |-> 0, lastError |-> ""]

\* a spin answered with k packs under a pack result id
OkSpinPacks == [success : {TRUE}, status : {200}, jwt : {Null}, refreshToken : {Null},
                hasData : {TRUE}, silvercoins : {0}, k : {0, 1},
                nullBody : {FALSE}, listing : {NoListing}]
\* makeAPIRequest, lines 1582-1588: the status of a failed request is the
\* one of the response, or undefined when there was none
LoopFailure == [success : {FALSE}, status : {401, 403, 429, 500, Null}, jwt : {Null},
                refreshToken : {Null}, hasData : {FALSE}, silvercoins : {0}, k : {0},
                nullBody : {FALSE}, listing : {NoListing}]
LoopBuyResults  == OkPlain \cup LoopFailure
LoopSpinResults == OkSpinPacks \cup OkNoData \cup LoopFailure

\* lines 1722, 1732, 1751-1753: the while loop of startSpinLoop is left
ExitLoop(st, t) ==
    [st EXCEPT !.h.ev.exit = [u |-> t.u]]

\* the failed answer a step of buySpin or executeSpin handles
Failed(st, t, res) ==
    [st EXCEPT !.h.ev.answer = [u |-> t.u, fn |-> t.fn, status |-> res.status]]

\* buySpin returns to startSpinLoop, lines 1720-1727
BuyReturn(st, t, ok) ==
    IF ok THEN Suspend(st, [t EXCEPT !.pc = "wait_spin", !.due = now + LoopWaitMs])
    ELSE ExitLoop([st EXCEPT !.ud[t.u].lastError = "Failed to buy spin"], t)

\* lines 1618-1629
buySpin(st, t) ==
    IF st.ud[t.u].jwtToken = Null THEN BuyReturn(st, t, FALSE)
    ELSE SendTokenRequest(st, [t EXCEPT !.jwt = st.ud[t.u].jwtToken], "request")

\* lines 1710-1720: the head of the while loop
startSpinLoop(st, t) ==
    IF st.ud[t.u].isActive THEN buySpin(st, [t EXCEPT !.fn = "buySpin", !.refreshes = 0, !.sends = 0])
    ELSE ExitLoop(st, t)

\* executeSpin returns to startSpinLoop, lines 1730-1737
LoopSpinReturn(st, t, ok) ==
    IF ok THEN Suspend(st, [t EXCEPT !.pc = "wait_buy", !.due = now + LoopWaitMs])
    ELSE ExitLoop([st EXCEPT !.ud[t.u].lastError = "Failed to execute spin"], t)

\* lines 1643-1654; executeSpin returns resultId whatever openPack returns
openPack(st, t) ==
    IF st.ud[t.u].jwtToken = Null THEN LoopSpinReturn(st, t, TRUE)
    ELSE SendTokenRequest(st, [t EXCEPT !.jwt = st.ud[t.u].jwtToken], "request")

\* lines 1669-1682
executeSpinLoop(st, t) ==
    IF st.ud[t.u].jwtToken = Null THEN LoopSpinReturn(st, t, FALSE)
    ELSE SendTokenRequest(st, [t EXCEPT !.jwt = st.ud[t.u].jwtToken], "request")

\* lines 1631-1639
BuyResult(st, t, res) ==
    IF res.success THEN BuyReturn(st, t, TRUE)
    ELSE IF res.status = 401
         THEN refreshToken(Failed(st, t, res), [t EXCEPT !.refreshes = @ + 1])
    ELSE BuyReturn(Failed(st, t, res), t, FALSE)

\* lines 1656-1665
PackResult(st, t, res) ==
    IF res.success THEN LoopSpinReturn([st EXCEPT !.ud[t.u].packsOpened = @ + 1], t, TRUE)
    ELSE IF res.status = 401 THEN refreshToken(st, [t EXCEPT !.refreshes = @ + 1])
    ELSE LoopSpinReturn(st, t, TRUE)

\* lines 1684-1706; a payload without data raises a TypeError, which the
\* catch block of startSpinLoop logs before the loop goes on (lines 1741-1750)
LoopSpinResult(st, t, res) ==
    IF ~res.success
    THEN IF res.status = 401
         THEN refreshToken(Failed(st, t, res), [t EXCEPT !.refreshes = @ + 1])
         ELSE LoopSpinReturn(Failed(st, t, res), t, FALSE)
    ELSE IF ~res.hasData THEN startSpinLoop(st, t)
    ELSE LET st1 == [st EXCEPT !.ud[t.u].spinCount = @ + 1]
         IN IF res.k > 0 THEN openPack(st1, [t EXCEPT !.fn = "openPack", !.refreshes = 0, !.sends = 0])
            ELSE LoopSpinReturn(st1, t, TRUE)

\* lines 1760-1775, from the i-th account on
initializeAppLoop(st, i) ==
    IF i <= Len(UserOrder(st))
    THEN refreshToken(st, NewTask("initializeApp", i, "refreshToken", UserOrder(st)[i]))
    ELSE AddTimer(st, "start", "", now + StartDelayMs)

\* return of refreshToken to the executor that awaited it
LoopRefreshReturn(st0, t, ok) ==
    LET st == [st0 EXCEPT !.h.refreshDone[t.u] = IF ok THEN "ok" ELSE "fail",
                          !.h.ev.refreshRet = [u |-> t.u,
                                               ret |-> IF ok THEN "true" ELSE "false"]]
    IN CASE t.fn = "buySpin" ->
              IF ok THEN buySpin(st, t) ELSE BuyReturn(st, t, FALSE)
         [] t.fn = "openPack" ->
              IF ok THEN openPack(st, t) ELSE LoopSpinReturn(st, t, TRUE)
         [] t.fn = "executeSpin" ->
              IF ok THEN executeSpinLoop(st, t) ELSE LoopSpinReturn(st, t, FALSE)
         [] OTHER ->
              IF t.root = "initializeApp" THEN initializeAppLoop(st, t.idx + 1) ELSE st

\* line 1611
markInactiveLoop(acct) ==
    [acct EXCEPT !.isActive = FALSE]

\* lines 1605-1614
LoopRefreshResult(st0, t, res) ==
    LET ok == hasNewJwt(res)
        st == [st0 EXCEPT !.h.ev.refresh =
                  [u |-> t.u, jwt |-> res.jwt, refreshToken |-> res.refreshToken,
                   kind |-> IF ok THEN "ok" ELSE "fail"]]
    IN IF ok
       THEN LoopRefreshReturn([st EXCEPT !.ud[t.u].jwtToken = res.jwt,
                                         !.ud[t.u].isActive = TRUE,
                                         !.h.stopped[t.u] = FALSE], t, TRUE)
       ELSE LoopRefreshReturn([st EXCEPT !.ud[t.u] = markInactiveLoop(@)], t, FALSE)

\* lines 1767-1773: the callback of the 20-second timer
RECURSIVE StartLoops(_, _)
StartLoops(st, i) ==
    IF i > Len(UserOrder(st)) THEN st
    ELSE StartLoops(IF st.ud[UserOrder(st)[i]].isActive
                    THEN startSpinLoop(st, NewTask("spinLoop", i, "buySpin",
                                                   UserOrder(st)[i]))
                    ELSE st, i + 1)

(***************************************************************************)
(* SpecLoop: the buy-spin loop variant as a state machine.                 *)
(***************************************************************************)
\* app.listen's callback has run initializeApp up to its first refreshToken
InitBuyLoop ==
    /\ variant = "loop"
    /\ probe = NoProbe
    /\ LogIdle
    /\ now = 0
    /\ userData = [u \in {"u1"} |-> LoopAccount]
    /\ usersFile = [u \in Users |-> ConfigCred]
    /\ tasks = initializeAppLoop([NoTasks EXCEPT !.ud = userData], 1).tasks
    /\ timers = EmptyBag
    /\ intervals = [spin |-> NoTime, funds |-> NoTime]
    /\ hist = [ev |-> NoEvent, refreshDone |-> [u \in Users |-> "none"], manual |-> 0,
               faults |-> 0, stopped |-> [u \in Users |-> FALSE]]

LoopRefreshResponse ==
    /\ variant = "loop"
    /\ \E t \in Refreshing, res \in RefreshResults :
         /\ FaultAllowed(t, res)
         /\ Commit(LoopRefreshResult(Answered(t, res), t, res))

BuyResponse ==
    /\ variant = "loop"
    /\ \E t \in Waiting("buySpin", "request"), res \in LoopBuyResults :
         /\ FaultAllowed(t, res)
         /\ Commit(BuyResult(Answered(t, res), t, res))

LoopSpinResponse ==
    /\ variant = "loop"
    /\ \E t \in Waiting("executeSpin", "request"), res \in LoopSpinResults :
         /\ FaultAllowed(t, res)
         /\ Commit(LoopSpinResult(Answered(t, res), t, res))

PackResponse ==
    /\ variant = "loop"
    /\ \E t \in Waiting("openPack", "request"), res \in ClaimResults :
         /\ FaultAllowed(t, res)
         /\ Commit(PackResult(Answered(t, res), t, res))

\* line 1727: the 7 seconds after buySpin are over
SpinWaitOver ==
    /\ variant = "loop"
    /\ \E t \in Delayed("wait_spin") :
         Commit(executeSpinLoop(Without(Cur, t),
                                [t EXCEPT !.fn = "executeSpin", !.refreshes = 0, !.sends = 0]))

\* line 1737: the 7 seconds after executeSpin are over
BuyWaitOver ==
    /\ variant = "loop"
    /\ \E t \in Delayed("wait_buy") :
         Commit(startSpinLoop(Without(Cur, t), t))

StartTimerFires ==
    /\ variant = "loop"
    /\ \E tm \in BagToSet(timers) :
         /\ now >= tm.due
         /\ Commit(StartLoops([Cur EXCEPT !.timers = @ (-) SetToBag({tm})], 1))

\* the manual control endpoints, lines 1830-1852
LoopManual(st) ==
    /\ variant = "loop"
    /\ hist.manual < MaxManual /\ ~TimerDue
    /\ Commit([st EXCEPT !.h.manual = @ + 1])

LoopManualRefresh ==
    \E u \in Users : LoopManual(refreshToken(Cur, NewTask("manual", 0, "refreshToken", u)))
LoopManualStart ==
    \E u \in Users :
        LoopManual(IF userData[u].isActive
                   THEN startSpinLoop(Cur, NewTask("spinLoop", 0, "buySpin", u))
                   ELSE Cur)
LoopManualStop ==
    \E u \in Users : LoopManual([Cur EXCEPT !.ud[u].isActive = FALSE,
                                             !.h.stopped[u] = TRUE])

LoopAdvanceClock ==
    /\ variant = "loop"
    /\ \A d \in EventTimes : d = NoTime \/ d > now
    /\ \E d \in EventTimes :
         /\ d > now /\ d <= LoopSpanMs
         /\ \A e \in EventTimes : e > now => d <= e
         /\ now' = d
    /\ hist' = [hist EXCEPT !.ev = NoEvent]
    /\ UNCHANGED <<variant, probe, logVars, userData, usersFile, tasks, timers,
                   intervals>>

NextBuyLoop ==
    \/ LoopRefreshResponse \/ BuyResponse \/ LoopSpinResponse \/ PackResponse
    \/ SpinWaitOver \/ BuyWaitOver \/ StartTimerFires
    \/ LoopManualRefresh \/ LoopManualStart \/ LoopManualStop
    \/ LoopAdvanceClock

SpecLoop == InitBuyLoop /\ [][NextBuyLoop]_vars

\* both variants that have a refreshToken of this form
InitRefresh == InitTick \/ InitBuyLoop
NextRefresh == NextTick \/ NextBuyLoop
SpecRefresh == InitRefresh /\ [][NextRefresh]_vars

(***************************************************************************)
(* Cron variant (lines 1-805): the spinner chain of one account, with the  *)
(* hourly funds check, the daily reset and the status endpoint.  The three *)
(* daily achievement jobs (lines 551-563) touch achievementStats only and  *)
(* are left out.                                                           *)
(***************************************************************************)
HourMs        == 60 * MinuteMs
RetryRefreshMs == 5 * 60 * 1000
CronExtraMs   == 240000
CronSpanMs    == DayMs + CronExtraMs   \* the clock of the cron variant is followed this far

\* the configurations of users-config.json the account is drawn from
CronConfigs ==
    { [dayStart |-> HHMM(0, 0), dayEnd |-> HHMM(0, 2),
       baseInterval |-> 1, randomScale1 |-> 0, randomScale2 |-> 1],
      [dayStart |-> HHMM(0, 1), dayEnd |-> HHMM(0, 2),
       baseInterval |-> 1, randomScale1 |-> 0, randomScale2 |-> 0] }

\* lines 48-78
CronAccount(c) ==
    [dayStart |-> c.dayStart, dayEnd |-> c.dayEnd, baseInterval |-> c.baseInterval,
     randomScale1 |-> c.randomScale1, randomScale2 |-> c.randomScale2,
     refreshToken |-> ConfigCred, currentJWT |-> Null,
     lastRefresh |-> NoTime, jwtExpiry |-> NoTime,
     nextSpin |-> NoTime, spinsToday |-> 0, currentSilver |-> 0,
     isActive |-> FALSE, dailyResetScheduled |-> FALSE]

InWindowCron(st, u) == isWithinActiveWindowCron(st.ud[u].dayStart, st.ud[u].dayEnd, now)

\* checkAndResetDaily, lines 157-181: past dayEnd and with no reset pending,
\* it logs, sets dailyResetScheduled and arms resetDailyCounters for the next
\* day at dayStart
checkAndResetDaily(st, u) ==
    IF ~StrLeq(currentTimeHHMM(now), st.ud[u].dayEnd) /\ ~st.ud[u].dailyResetScheduled
    THEN AddTimer([st EXCEPT !.ud[u].dailyResetScheduled = TRUE,
                             !.h.ev.window.logged = @ + 1],
                  "reset", u,
                  ((now \div DayMs) + 1) * DayMs
                      + timeToMinutes(st.ud[u].dayStart) * MinuteMs)
    ELSE st

\* the state isWithinActiveWindow of the cron variant leaves, lines 144-155;
\* its value is InWindowCron
evalWindowCron(st, u) ==
    checkAndResetDaily([st EXCEPT !.h.ev.window.u = u], u)

\* lines 598-609: the next spinnerIteration is armed
scheduleNextIteration(st, u, rnd) ==
    IF st.ud[u].nextSpin # NoTime
    THEN AddTimer(st, "spinner", u, now + Max(0, st.ud[u].nextSpin - now))
    ELSE AddTimer(st, "spinner", u,
                  now + totalDelayMsCron(st.ud[u].baseInterval, st.ud[u].randomScale1,
                                         st.ud[u].randomScale2, rnd[u]))

\* performSpin returns: to spinnerIteration (line 595) or to the endpoint
PerformSpinReturn(st, t, ok, rnd) ==
    LET st1 == [st EXCEPT !.h.ev.ret = [fn |-> "performSpin", u |-> t.u,
                                        val |-> IF ok THEN 1 ELSE 0, sent |-> <<>>,
                                        ids |-> <<>>, acks |-> <<>>]]
    IN IF t.root = "spinner" THEN scheduleNextIteration(st1, t.u, rnd) ELSE st1

\* refreshJWTToken up to its request, lines 275-293
refreshJWTToken(st, t) ==
    Suspend(st, [t EXCEPT !.pc = "rf_request", !.due = Deadline])

\* performSpin up to its request, lines 454-479
performSpin(st, t0, rnd) ==
    LET t == [t0 EXCEPT !.fn = "performSpin", !.t0 = now]
    IN IF st.ud[t.u].currentJWT = Null THEN PerformSpinReturn(st, t, FALSE, rnd)
       ELSE IF ~InWindowCron(st, t.u)
            THEN PerformSpinReturn(evalWindowCron(st, t.u), t, FALSE, rnd)
            ELSE SendTokenRequest(evalWindowCron(st, t.u),
                                  [t EXCEPT !.jwt = st.ud[t.u].currentJWT], "request")

\* lines 481-526: the answer to the spin request
CronSpinResult(st, t, res, rnd) ==
    IF res.success
    THEN PerformSpinReturn(
            [st EXCEPT !.ud[t.u].spinsToday = @ + 1,
                       !.ud[t.u].nextSpin =
                           calculateNextSpinTime("cron", st.ud[t.u].baseInterval,
                                                 st.ud[t.u].randomScale1,
                                                 st.ud[t.u].randomScale2, rnd[t.u], now)],
            t, TRUE, rnd)
    ELSE IF res.status = 401
         THEN refreshJWTToken(Failed(st, t, res), t)
         ELSE PerformSpinReturn(Failed(st, t, res), t, FALSE, rnd)

\* spinnerIteration, lines 578-611
spinnerIteration(st, u, rnd) ==
    IF ~st.ud[u].isActive THEN st
    ELSE IF ~InWindowCron(st, u) THEN evalWindowCron(st, u)
    ELSE IF st.ud[u].currentJWT = Null
         THEN refreshJWTToken(evalWindowCron(st, u),
                              NewTask("spinner", 0, "refreshJWTToken", u))
         ELSE performSpin(evalWindowCron(st, u), NewTask("spinner", 0, "performSpin", u), rnd)

\* lines 544-575: isActive, the hourly funds job, the first spinnerIteration
startDailyScheduleForUser(st, u, rnd) ==
    spinnerIteration([st EXCEPT !.ud[u].isActive = TRUE,
                                !.iv.funds = ((now \div HourMs) + 1) * HourMs], u, rnd)

\* checkFunds returns: to initializeTool (lines 774-777) or to its caller
CronFundsReturn(st, t, rnd) ==
    IF t.root = "initializeTool" THEN startDailyScheduleForUser(st, t.u, rnd) ELSE st

\* checkFunds up to its request, lines 411-425
cronCheckFunds(st, t0, rnd) ==
    LET t == [t0 EXCEPT !.fn = "checkFunds"]
    IN IF st.ud[t.u].currentJWT = Null THEN CronFundsReturn(st, t, rnd)
       ELSE SendTokenRequest(st, [t EXCEPT !.jwt = st.ud[t.u].currentJWT], "request")

\* lines 427-451
CronFundsResult(st, t, res, rnd) ==
    IF res.success /\ res.hasData
    THEN CronFundsReturn([st EXCEPT !.ud[t.u].currentSilver = res.silvercoins], t, rnd)
    ELSE CronFundsReturn(st, t, rnd)

\* lines 295-322: the answer to the refresh request, and what the caller
\* that awaited refreshJWTToken does with its result
CronRefreshResult(st00, t, res, rnd) ==
    LET ok == res.success /\ res.hasData
        st0 == [st00 EXCEPT !.h.ev.refresh =
                   [u |-> t.u, jwt |-> res.jwt, refreshToken |-> res.refreshToken,
                    kind |-> IF ~res.success THEN "fail"
                             ELSE IF res.jwt = Null THEN "nojwt" ELSE "ok"],
                            !.h.ev.refreshRet =
                   [u |-> t.u, ret |-> IF ok THEN "true" ELSE "false"]]
        st == IF ok
              THEN [st0 EXCEPT !.ud[t.u].currentJWT = res.jwt,
                               !.ud[t.u].lastRefresh = now,
                               !.ud[t.u].jwtExpiry = now + DayMs,
                               !.ud[t.u].refreshToken =
                                   IF res.refreshToken # Null
                                        /\ res.refreshToken # NotProvided
                                   THEN res.refreshToken ELSE @]
              ELSE st0
    IN CASE t.fn = "performSpin" -> PerformSpinReturn(st, t, FALSE, rnd)
         [] t.root = "spinner" ->
              IF ok THEN performSpin(st, t, rnd)
              ELSE AddTimer(st, "spinner", t.u, now + RetryRefreshMs)
         [] t.root = "initializeTool" ->
              IF ok THEN cronCheckFunds(st, t, rnd) ELSE st
         [] OTHER -> st

\* resetDailyCounters, lines 183-192
resetDailyCounters(acct) ==
    [acct EXCEPT !.spinsToday = 0, !.dailyResetScheduled = FALSE]

(***************************************************************************)
(* SpecCron: the cron variant as a state machine.                          *)
(***************************************************************************)
\* app.listen's callback has run initializeTool up to its first refresh
InitCron ==
    /\ variant = "cron"
    /\ probe = NoProbe
    /\ LogIdle
    /\ now = 0
    /\ userData \in [{"u1"} -> {CronAccount(c) : c \in CronConfigs}]
    /\ usersFile = [u \in Users |-> ConfigCred]
    /\ tasks = refreshJWTToken(NoTasks, NewTask("initializeTool", 1, "refreshJWTToken",
                                                "u1")).tasks
    /\ timers = EmptyBag
    /\ intervals = [spin |-> NoTime, funds |-> NoTime]
    /\ hist = [ev |-> NoEvent, refreshDone |-> [u \in Users |-> "none"], manual |-> 0,
               faults |-> 0, stopped |-> [u \in Users |-> FALSE]]

CronRefreshResponse ==
    /\ variant = "cron"
    /\ \E t \in Refreshing, res \in RefreshResults, rnd \in Rnd :
         /\ FaultAllowed(t, res)
         /\ Commit(CronRefreshResult(Answered(t, res), t, res, rnd))

CronSpinResponse ==
    /\ variant = "cron"
    /\ \E t \in Waiting("performSpin", "request"), res \in SpinResults, rnd \in Rnd :
         /\ FaultAllowed(t, res)
         /\ Commit(CronSpinResult(Answered(t, res), t, res, rnd))

CronFundsResponse ==
    /\ variant = "cron"
    /\ \E t \in Waiting("checkFunds", "request"), res \in FundsResults, rnd \in Rnd :
         /\ FaultAllowed(t, res)
         /\ Commit(CronFundsResult(Answered(t, res), t, res, rnd))

\* setTimeout(spinnerIteration, delay), lines 590, 603, 608
SpinnerTimerFires ==
    /\ variant = "cron"
    /\ \E tm \in BagToSet(timers), rnd \in Rnd :
         /\ tm.kind = "spinner" /\ now >= tm.due
         /\ Commit(spinnerIteration([Cur EXCEPT !.timers = @ (-) SetToBag({tm})],
                                    tm.u, rnd))

\* the setTimeout of checkAndResetDaily, lines 177-179
ResetTimerFires ==
    /\ variant = "cron"
    /\ \E tm \in BagToSet(timers) :
         /\ tm.kind = "reset" /\ now >= tm.due
         /\ Commit([Cur EXCEPT !.timers = @ (-) SetToBag({tm}),
                               !.ud[tm.u] = resetDailyCounters(@)])

\* cron.schedule('0 * * * *'), lines 566-571
HourlyFunds ==
    /\ variant = "cron"
    /\ intervals.funds # NoTime /\ now >= intervals.funds
    /\ \E u \in Users, rnd \in Rnd :
         LET st == evalWindowCron([Cur EXCEPT !.iv.funds = @ + HourMs], u)
         IN Commit(IF InWindowCron(st, u)
                   THEN cronCheckFunds(st, NewTask("cron", 0, "checkFunds", u), rnd)
                   ELSE st)

\* a time between the events of the chain at which a client calls an endpoint
RequestTimeMs == 240000
CronEventTimes == EventTimes \cup {RequestTimeMs}

\* the endpoints, within the budget of incoming requests
CronRequest(st) ==
    /\ variant = "cron"
    /\ hist.manual < MaxManual /\ ~TimerDue
    /\ Commit([st EXCEPT !.h.manual = @ + 1])

\* GET /api/status?userId=u, lines 621-644: isWithinActiveWindow is called
\* for the response
CronStatus ==
    \E u \in Users : CronRequest(evalWindowCron([Cur EXCEPT !.h.ev.window.status = TRUE], u))

\* POST /api/manual-spin, lines 742-750
CronManualSpin ==
    \E u \in Users, rnd \in Rnd :
        CronRequest(performSpin(Cur, NewTask("manual", 0, "performSpin", u), rnd))

\* POST /api/refresh-token, lines 712-720
CronManualRefresh ==
    \E u \in Users :
        CronRequest(refreshJWTToken(Cur, NewTask("manual", 0, "refreshJWTToken", u)))

\* the clock moves to the next time at which a timer, a job or a request
\* timeout is due or a request comes in
CronAdvanceClock ==
    /\ variant = "cron"
    /\ \A d \in EventTimes : d = NoTime \/ d > now
    /\ \E d \in CronEventTimes :
         /\ d > now /\ d <= CronSpanMs
         /\ \A e \in CronEventTimes : e > now => d <= e
         /\ now' = d
    /\ hist' = [hist EXCEPT !.ev = NoEvent]
    /\ UNCHANGED <<variant, probe, logVars, userData, usersFile, tasks, timers,
                   intervals>>

NextCron ==
    \/ CronRefreshResponse \/ CronSpinResponse \/ CronFundsResponse
    \/ SpinnerTimerFires \/ ResetTimerFires \/ HourlyFunds
    \/ CronStatus \/ CronManualSpin \/ CronManualRefresh
    \/ CronAdvanceClock

SpecCron == InitCron /\ [][NextCron]_vars

\* the event loop runs every callback that is due, every request is answered
\* or times out, and the clock goes on
SpecCronFair == SpecCron /\ WF_vars(NextCron)

InFlight(u)   == {t \in BagToSet(tasks) : t.u = u}
InRefresh(u)  == {t \in InFlight(u) : t.pc \in {"rf_request", "rf_readFile", "rf_writeFile"}}
Supplied(cred) == cred # Null /\ cred # NotProvided

\* C1: when executeSpin, called by the 30-second tick for a Due account,
\* returns, nextSpinTime is set and is later than the time of the call.
C1_TickSpinSchedulesLater ==
    hist.ev.spin.root = "spinTick" =>
        /\ hist.ev.spin.next # NoTime
        /\ hist.ev.spin.next > hist.ev.spin.t0

\* C2: one originating call of an executor invokes refreshToken at most once.
C2_RefreshAtMostOnce ==
    \A t \in BagToSet(tasks) : t.refreshes <= 1

\* C3: for every account at most one action is in progress at any time.
C3_OneActionPerAccount ==
    \A t \in BagToSet(tasks) :
        /\ CopiesIn(t, tasks) = 1
        /\ InFlight(t.u) = {t}

\* C4: while isActive is false no request carrying the account's jwtToken
\* is issued.
C4_NoRequestWhileInactive ==
    ~hist.ev.stale

C9_RefreshSuccess ==
    [][/\ hist'.ev.refresh.kind = "ok" =>
            LET r == hist'.ev.refresh
                u == r.u
            IN /\ userData'[u].jwtToken = r.jwt
               /\ userData'[u].isActive
               /\ userData'[u].lastRefresh = now
               /\ userData'[u].refreshToken =
                      IF Supplied(r.refreshToken) THEN r.refreshToken
                      ELSE userData[u].refreshToken
               /\ IF Supplied(r.refreshToken)
                  THEN \E t \in BagToSet(tasks') : t.u = u /\ t.pc = "rf_readFile"
                  ELSE hist'.ev.refreshRet = [u |-> u, ret |-> "true"]
       /\ (\E t \in BagToSet(tasks) :
              /\ t.pc = "rf_writeFile"
              /\ CopiesIn(t, tasks') < CopiesIn(t, tasks)) =>
                 hist'.ev.refreshRet.ret = "true"
       /\ hist'.ev.refreshRet.ret = "false" => hist'.ev.refresh.kind = "fail"]_vars

\* a successful refresh that rotates the credential of an account whose
\* earlier refresh had stored a token
C9_Witness ==
    /\ hist.ev.refresh.kind = "ok"
    /\ Supplied(hist.ev.refresh.refreshToken)
    /\ userData[hist.ev.refresh.u].refreshToken = hist.ev.refresh.refreshToken
    /\ now > 0
    /\ userData[hist.ev.refresh.u].lastRefresh = now

\* C10: when no refresh is in flight for an account, isActive is true iff
\* the refreshToken attempt that completed last succeeded.
C10_ActiveIffLastRefreshOk ==
    \A u \in Users :
        InRefresh(u) = {} => (userData[u].isActive <=> hist.refreshDone[u] = "ok")

\* C11: one call of checkFunds sends the funds request at most twice: once,
\* and once more after a 401 followed by a successful refresh.
C11_FundsRetriedOnce ==
    \A t \in BagToSet(tasks) : t.fn = "checkFunds" => t.sends <= 2

NoClaimable(listing) ==
    \A c \in DOMAIN listing :
        \A x \in 1..Len(listing[c]) : listing[c][x].progress # "claim"

\* C12: a step in which claimAchievements receives a listing without any
\* item whose progress has claimAvailable returns 0, sends no claim request
\* and leaves achievementsClaimed as it was.
C12_NothingClaimable ==
    [][(hist'.ev.listing.seen /\ NoClaimable(hist'.ev.listing.data)) =>
          LET u == hist'.ev.listing.u
          IN /\ hist'.ev.ret.fn = "claimAchievements"
             /\ hist'.ev.ret.u = u
             /\ hist'.ev.ret.val = 0
             /\ hist'.ev.ret.sent = <<>>
             /\ \A t \in BagToSet(tasks') :
                    t.pc = "claim_request" => CopiesIn(t, tasks') <= CopiesIn(t, tasks)
             /\ userData'[u].achievementsClaimed = userData[u].achievementsClaimed]_vars

\* the listing held items, none of them claimable
C12_Witness ==
    /\ hist.ev.listing.seen
    /\ NoClaimable(hist.ev.listing.data)
    /\ \E c \in DOMAIN hist.ev.listing.data : Len(hist.ev.listing.data[c]) > 1
    /\ hist.ev.ret.fn = "claimAchievements" /\ hist.ev.ret.val = 0

\* C13: when claimAchievements returns after a listing with claimable ids,
\* it has sent one claim request per id, in listing order, returns the
\* number of claims that succeeded and has added that number to
\* achievementsClaimed.
C13_OneClaimPerId ==
    [][(hist'.ev.ret.fn = "claimAchievements" /\ hist'.ev.ret.ids # <<>>) =>
          LET r == hist'.ev.ret
              s == Cardinality({x \in 1..Len(r.acks) : r.acks[x]})
          IN /\ r.sent = r.ids
             /\ Len(r.acks) = Len(r.ids)
             /\ r.val = s
             /\ userData'[r.u].achievementsClaimed
                    = userData[r.u].achievementsClaimed + s]_vars

\* a run over two batches in which a claim failed and a later one succeeded
C13_Witness ==
    /\ hist.ev.ret.fn = "claimAchievements"
    /\ Len(hist.ev.ret.ids) > BatchSize
    /\ \E x, y \in 1..Len(hist.ev.ret.acks) :
          x < y /\ ~hist.ev.ret.acks[x] /\ hist.ev.ret.acks[y]
    /\ hist.ev.ret.val > 0

\* C14: a claim request answered 401 makes claimAchievements start a
\* refresh of the account's token (the retry of the claim would follow it).
C14_ClaimRefreshedOn401 ==
    hist.ev.claim.status = 401 =>
        \E t \in InRefresh(hist.ev.claim.u) : t.fn = "claimAchievements"

LoopCalls == {"buySpin", "executeSpin"}

\* C15: a buy or spin request of the loop answered 403 leaves the account
\* inactive and its loop exited.
C15_ForbiddenDeactivates ==
    (hist.ev.answer.fn \in LoopCalls /\ hist.ev.answer.status = 403) =>
        /\ ~userData[hist.ev.answer.u].isActive
        /\ hist.ev.exit.u = hist.ev.answer.u

\* C16: a buy or spin request of the loop answered 429 does not end the loop.
C16_RateLimitKeepsLoop ==
    (hist.ev.answer.fn \in LoopCalls /\ hist.ev.answer.status = 429) =>
        hist.ev.exit.u # hist.ev.answer.u

\* C17: after a transport error or an answer other than 401, 403 and 429 to
\* a buy or spin request, the loop is not left while the account is active.
C17_FailureKeepsLoop ==
    (hist.ev.answer.fn \in LoopCalls /\ hist.ev.answer.status \in {500, Null}) =>
        ~(hist.ev.exit.u = hist.ev.answer.u /\ userData[hist.ev.answer.u].isActive)

\* C18: between the stop endpoint and the next successful refreshToken of
\* an account, no step sends a buy or spin request for it.
C18_NoRequestAfterStop ==
    \A u \in Users :
        hist.stopped[u] => ~(hist.ev.request.u = u /\ hist.ev.request.fn \in LoopCalls)

\* GET /api/users of the tick-driven variant, lines 1445-1447: res.json(userData)
usersSnapshot(ud) == ud

\* GET /api/users of the buy-spin loop variant, lines 1798-1820
safeUsersSnapshot(ud) ==
    [u \in DOMAIN ud |-> [isActive |-> ud[u].isActive, spinCount |-> ud[u].spinCount,
                          packsOpened |-> ud[u].packsOpened,
                          lastError |-> ud[u].lastError]]

Exposed(ud) == IF variant = "loop" THEN safeUsersSnapshot(ud) ELSE usersSnapshot(ud)

\* the accounts of ud with other values for the token and the credential of
\* account u; a token that is absent stays absent
TokenValues == 1..(NumJwts + 1)
WithTokens(ud, u, j, r) ==
    [ud EXCEPT ![u].jwtToken = IF @ = Null THEN Null ELSE j, ![u].refreshToken = r]

\* C19: the response of GET /api/users is the same for every two states that
\* differ only in the values of an account's token and refresh credential.
C19_SnapshotHidesTokens ==
    \A u \in Users : \A j, r \in TokenValues :
        Exposed(WithTokens(userData, u, j, r)) = Exposed(userData)

\* C20: once the startup loop of initializeApp is over, every account has
\* had its startup refresh and the spin and funds ticks are running.
C20_StartupReachesAll ==
    (variant = "tick" /\ \A t \in BagToSet(tasks) : t.root # "initializeApp") =>
        /\ \A u \in Users : hist.refreshDone[u] # "none"
        /\ intervals.spin # NoTime /\ intervals.funds # NoTime

\* C21: once no refreshToken call is under way any more, users.json holds
\* for every account the refresh credential the account holds in memory.
C21_NoRotationLost ==
    (variant = "tick" /\ \A u \in Users : InRefresh(u) = {}) =>
        \A u \in Users : usersFile[u] = userData[u].refreshToken

\* the unit the random scales are taken in: seconds in the cron variant
\* (line 201), minutes in the tick-driven variant (lines 1280-1281)
JitterUnitMs == IF variant = "cron" THEN SecondMs ELSE MinuteMs

\* C22: calculateNextSpinTime returns the computation time plus baseInterval
\* minutes plus a jitter between randomScale1 and randomScale2, both taken in
\* the variant's unit; with baseInterval 10 and both scales 0 the result is
\* exactly ten minutes after the computation time.
C22_BasePlusJitter ==
    (probe.fn = "calc" /\ probe.done) =>
        LET j == probe.result - probe.t - probe.baseInterval * MinuteMs
        IN /\ probe.rs1 * JitterUnitMs <= j
           /\ j <= probe.rs2 * JitterUnitMs
           /\ (probe.baseInterval = ScenarioBase /\ probe.rs1 = 0 /\ probe.rs2 = 0) =>
                 probe.result = probe.t + ScenarioBase * MinuteMs

\* the tick variant drew a jitter strictly between two different scales
C22_Witness ==
    /\ probe.fn = "calc" /\ probe.done /\ variant = "tick"
    /\ 0 < probe.rs1 /\ probe.rs1 < probe.rs2 /\ probe.k > 0
    /\ probe.result - probe.t - probe.baseInterval * MinuteMs > probe.rs1 * MinuteMs

\* C23: a step taken while the clock is outside an account's active window
\* leaves the account's nextSpinTime as it was.
C23_TimerUntouchedOutsideWindow ==
    [][\A u \in Users :
          (variant = "tick" /\ ~InWindow(Cur, u)) =>
              userData'[u].nextSpinTime = userData[u].nextSpinTime]_vars

\* the step is a run of the 30-second tick callback
IsSpinTick == intervals.spin # NoTime /\ intervals'.spin # intervals.spin

\* C25: a tick that finds an active, in-window account without nextSpinTime
\* sets nextSpinTime and sends no spin request for it in that step.
C25_IdleOnlyArms ==
    [][IsSpinTick =>
          \A u \in Users :
              (userData[u].isActive /\ InWindow(Cur, u)
                 /\ userData[u].nextSpinTime = NoTime) =>
                  /\ hist'.ev.request # [u |-> u, fn |-> "executeSpin"]
                  /\ userData'[u].nextSpinTime # NoTime]_vars

\* executeSpin is entered for account u in this step by the tick callback:
\* its spin request is sent, or it returns at once
TickSpins(u) ==
    \/ \E t \in BagToSet(tasks') :
          /\ t.root = "spinTick" /\ t.u = u /\ t.fn = "executeSpin"
          /\ t.pc = "request" /\ t.t0 = now
          /\ CopiesIn(t, tasks') > CopiesIn(t, tasks)
    \/ /\ hist'.ev.spin.u = u /\ hist'.ev.spin.root = "spinTick"
       /\ hist'.ev.spin.t0 = now
       /\ \A t \in BagToSet(tasks) :
             (t.root = "spinTick" /\ t.u = u) => CopiesIn(t, tasks') >= CopiesIn(t, tasks)

\* the tick has to leave the account alone
NotDue(u) ==
    \/ ~userData[u].isActive
    \/ ~InWindow(Cur, u)
    \/ (userData[u].nextSpinTime # NoTime /\ now < userData[u].nextSpinTime)

\* C26: no step enters executeSpin from the tick for an account that is
\* inactive, outside its window or armed with a nextSpinTime in the future,
\* and a run of the tick callback leaves the spinCount and nextSpinTime of
\* such an account as they were.
C26_TickSkipsNotDue ==
    [][\A u \in Users :
          (variant = "tick" /\ NotDue(u)) =>
              /\ ~TickSpins(u)
              /\ IsSpinTick =>
                    /\ userData'[u].spinCount = userData[u].spinCount
                    /\ userData'[u].nextSpinTime = userData[u].nextSpinTime]_vars

\* the tick has just run for an active account inside its window whose
\* nextSpinTime lies ahead, and has started nothing for it
C26_Witness ==
    /\ variant = "tick"
    /\ intervals.spin = now + SpinTickMs
    /\ \E u \in Users :
          /\ userData[u].isActive /\ InWindow(Cur, u)
          /\ userData[u].nextSpinTime > now
          /\ userData[u].spinCount > 0
          /\ InFlight(u) = {}

\* C27: a step in which the refreshToken that executeSpin awaited after a
\* 401 returns true sends the spin request again.
C27_SpinRetriedAfterRefresh ==
    [][\A t \in BagToSet(tasks) :
          (/\ t.fn = "executeSpin"
           /\ t.pc \in {"rf_request", "rf_writeFile"}
           /\ CopiesIn(t, tasks') < CopiesIn(t, tasks)
           /\ hist'.ev.refreshRet = [u |-> t.u, ret |-> "true"]) =>
              hist'.ev.request = [u |-> t.u, fn |-> "executeSpin"]]_vars

\* the automatic refreshes pending for account u: how many, and when
RefreshTimers(tms, u) == {tm \in BagToSet(tms) : tm.kind = "refresh" /\ tm.u = u}
NumRefreshTimers(tms, u) ==
    BagCardinality([tm \in RefreshTimers(tms, u) |-> CopiesIn(tm, tms)])
NextDayStart(u) ==
    ((now \div DayMs) + 1) * DayMs + timeToMinutes(userData[u].dayStart) * MinuteMs

\* C29: a step in which refreshToken returns true arms exactly one more
\* automatic refresh of that account, due at the account's dayStart on the
\* day after, which is later than the clock; a step in which it returns
\* false arms none.
C29_RefreshSchedulesNext ==
    [][\A u \in Users :
          /\ (variant = "tick" /\ hist'.ev.refreshRet = [u |-> u, ret |-> "true"]) =>
                \E tm \in RefreshTimers(timers', u) :
                    /\ tm.due = NextDayStart(u) /\ tm.due > now
                    /\ CopiesIn(tm, timers') = CopiesIn(tm, timers) + 1
                    /\ NumRefreshTimers(timers', u) = NumRefreshTimers(timers, u) + 1
          /\ (variant = "tick" /\ hist'.ev.refreshRet = [u |-> u, ret |-> "false"]) =>
                NumRefreshTimers(timers', u) = NumRefreshTimers(timers, u)]_vars

\* a refresh that rotated the credential has returned true after the write
\* of users.json, and its timer is armed for the next day
C29_Witness ==
    /\ variant = "tick"
    /\ \E u \in Users :
          /\ hist.ev.refreshRet = [u |-> u, ret |-> "true"]
          /\ hist.ev.refresh.kind = "none"
          /\ \E tm \in RefreshTimers(timers, u) : tm.due = NextDayStart(u) /\ tm.due > now


\* the steps on which the performSpin that spinnerIteration t awaited returns
\* after its request has failed (lines 516-526, then 595-609)
ChainSpinFailed(t) ==
    /\ variant = "cron"
    /\ t.root = "spinner" /\ t.fn = "performSpin"
    /\ ~BagIn(t, tasks')
    /\ hist'.ev.ret.fn = "performSpin" /\ hist'.ev.ret.u = t.u /\ hist'.ev.ret.val = 0

\* the spinnerIteration timers armed for account u
SpinnerTimers(st, u) == {tm \in BagToSet(st) : tm.kind = "spinner" /\ tm.u = u}

\* C24: in the cron variant, once the window of an account that is active
\* has reopened on the next day, the spinnerIteration chain eventually
\* issues a spin request in it, with no restart and no manual trigger.
C24_ChainResumes ==
    (variant = "cron" /\ now >= DayMs /\ userData["u1"].isActive
        /\ isWithinActiveWindowCron(userData["u1"].dayStart, userData["u1"].dayEnd, now))
    ~> (\E t \in BagToSet(tasks) :
          /\ t.root = "spinner" /\ t.fn = "performSpin" /\ t.pc = "request"
          /\ t.u = "u1" /\ now >= DayMs)

\* C28: in the cron variant, when the performSpin of the spinner chain
\* returns after a failed request, spinnerStats.nextSpin is a new timestamp
\* later than now and the next spinnerIteration is armed for that timestamp.
C28_FailedSpinRearms ==
    [][\A t \in BagToSet(tasks) :
         ChainSpinFailed(t) =>
            /\ userData'[t.u].nextSpin # userData[t.u].nextSpin
            /\ userData'[t.u].nextSpin > now
            /\ \E tm \in SpinnerTimers(timers', t.u) :
                   tm.due = userData'[t.u].nextSpin]_vars

\* C30: in the cron variant, the isWithinActiveWindow call that answers
\* GET /api/status changes no field of the account, appends no log entry and
\* arms no timer.
C30_WindowCheckPure ==
    [][(variant = "cron" /\ hist'.ev.window.status) =>
          /\ userData' = userData
          /\ timers' = timers
          /\ hist'.ev.window.logged = 0]_vars


\* the entries of log are in append order, the one appended last first
NewestFirst(log) == \A i \in 1..(Len(log) - 1) : log[i].ts > log[i + 1].ts

\* C31: an account's retained log is in append order, newest first, and it is
\* the newest cap-many of the entries appended for the account: on overflow
\* exactly the oldest entries are gone.
C31_NewestRetained ==
    \A u \in DOMAIN logs :
        /\ NewestFirst(logs[u])
        /\ logs[u] = slice0(logHist.all[u], UserLogCap(variant))

\* more entries were appended for an account than its log retains
C31_Witness ==
    /\ variant = "tick" /\ logHist.free > 0
    /\ \E u \in DOMAIN logs :
         /\ Len(logHist.all[u]) > TickLogCap
         /\ logHist.last[u].ts = logHist.n

\* s is a prefix of t
IsPrefix(s, t) == Len(s) <= Len(t) /\ s = SubSeq(t, 1, Len(s))

\* the entries of the global log made for user id u
EntriesOf(u) == SelectSeq(activityLogs, LAMBDA e : e.userId = u)

\* C32: in the tick variant the global activityLogs has at most 1000 entries,
\* newest first, of all accounts: filtered to an account and cut to 200 it is a
\* prefix of the account's log; an entry logged for an unknown user id is in
\* the global log (while among its newest 1000) and in no account log.
C32_GlobalLogAggregates ==
    variant = "tick" =>
        /\ Len(activityLogs) <= 1000
        /\ NewestFirst(activityLogs)
        /\ logHist.n > 0 => activityLogs[1].ts = logHist.n
        /\ \A u \in DOMAIN logs :
             /\ IsPrefix(slice0(EntriesOf(u), 200), logs[u])
             /\ \A i \in 1..Len(logs[u]) : logs[u][i].userId = u
        /\ \A i \in 1..Len(logHist.all[UnknownId]) :
             logHist.all[UnknownId][i].ts > logHist.n - 1000 =>
                 \E j \in 1..Len(activityLogs) : activityLogs[j] = logHist.all[UnknownId][i]

\* the global log is full, has evicted entries, and an unknown-id entry was
\* the last one logged
C32_Witness ==
    /\ variant = "tick" /\ logHist.free > 0
    /\ logHist.n > GlobalLogCap /\ Len(activityLogs) = GlobalLogCap
    /\ logHist.last[UnknownId].ts = logHist.n
    /\ \E u \in DOMAIN logs : Len(logs[u]) = TickLogCap


\* C33: in the tick variant, when checkFunds gets a balance it stores it in
\* lastFunds and returns it; when its request fails otherwise than with 401
\* (no response, 4xx/5xx, no payload) it returns null and does not raise,
\* starts no refresh, and leaves lastFunds, jwtToken and isActive as they were.
C33_FundsOutcome ==
    [][\A u \in Users :
         (variant = "tick" /\ hist'.ev.funds.u = u) =>
            /\ hist'.ev.funds.kind = "ok" =>
                 /\ userData'[u].lastFunds = hist'.ev.funds.silvercoins
                 /\ hist'.ev.ret.fn = "checkFunds" /\ hist'.ev.ret.u = u
                 /\ hist'.ev.ret.val = hist'.ev.funds.silvercoins
            /\ hist'.ev.funds.kind = "failed" =>
                 /\ hist'.ev.raised.fn = ""
                 /\ hist'.ev.ret.fn = "checkFunds" /\ hist'.ev.ret.u = u
                 /\ hist'.ev.ret.val = NoTime
                 /\ ~\E t \in BagToSet(tasks') :
                        t.u = u /\ t.pc = "rf_request" /\ ~BagIn(t, tasks)
                 /\ userData'[u].lastFunds = userData[u].lastFunds
                 /\ userData'[u].jwtToken = userData[u].jwtToken
                 /\ userData'[u].isActive = userData[u].isActive]_vars


\* C34: in the cron variant, when the refresh request is answered 2xx with a
\* payload that has no jwt field, refreshJWTToken returns success = false
\* and currentJWT, jwtExpiry and lastRefresh stay as they were.
C34_NoJwtIsFailure ==
    [][\A u \in Users :
         (variant = "cron" /\ hist'.ev.refresh.u = u /\ hist'.ev.refresh.kind = "nojwt") =>
            /\ hist'.ev.refreshRet.ret = "false"
            /\ userData'[u].currentJWT = userData[u].currentJWT
            /\ userData'[u].jwtExpiry = userData[u].jwtExpiry
            /\ userData'[u].lastRefresh = userData[u].lastRefresh]_vars

\* C35: in the tick and loop variants, in every state an account whose
\* isActive flag is true has a jwtToken that is not null.
C35_ActiveHasToken ==
    variant \in {"tick", "loop"} =>
        \A u \in Users : userData[u].isActive => userData[u].jwtToken # Null

\* an account is active again after one of its refreshes had failed
C35_Witness ==
    /\ variant \in {"tick", "loop"}
    /\ \E u \in Users :
         /\ userData[u].isActive /\ userData[u].jwtToken # Null
         /\ hist.refreshDone[u] = "ok" /\ hist.faults > 0

\* C36: in the tick variant, at any time at most one scheduled-refresh timer
\* is pending per account.
C36_OneRefreshTimer ==
    variant = "tick" => \A u \in Users : NumRefreshTimers(timers, u) <= 1


\* the end-of-day timers armed for account u
EndOfDayTimers(tms, u) == {tm \in BagToSet(tms) : tm.kind = "endOfDay" /\ tm.u = u}

\* C37: in the tick variant, an account that a failed refresh has left
\* inactive is eventually refreshed again with no manual trigger: a
\* refreshToken call made by the program is in flight for it, or the timer of
\* a scheduled refresh is pending for it (it fires after the span the clock
\* is followed).
C37_RefreshedAgain ==
    (variant = "tick" /\ ~userData["u1"].isActive /\ hist.refreshDone["u1"] = "fail")
    ~> (\/ \E t \in BagToSet(tasks) :
              t.u = "u1" /\ t.pc = "rf_request" /\ t.root # "manual"
        \/ RefreshTimers(timers, "u1") # {})

\* C39: in the tick variant, once startup is over an account that is active
\* eventually has an end-of-day claim ahead of it: the timer that claims at
\* dayEnd and re-arms itself for the next day is pending for it.
C39_EndOfDayRecurs ==
    (variant = "tick" /\ intervals.spin # NoTime /\ userData["u1"].isActive)
    ~> (EndOfDayTimers(timers, "u1") # {})


\* the number of startSpinLoop invocations that are running for account u
LoopsRunning(u) ==
    LET running == {t \in BagToSet(tasks) : t.root = "spinLoop" /\ t.u = u}
    IN BagCardinality([t \in running |-> CopiesIn(t, tasks)])

\* C38: in the loop variant, at most one startSpinLoop instance runs per
\* account at any time.
C38_OneLoopPerAccount ==
    variant = "loop" => \A u \in Users : LoopsRunning(u) <= 1


\* C40: in the loop variant, the debugLogs buffer never holds more than 200
\* entries, whatever calls of debugLog and logActivity have been made.
C40_DebugLogCapped ==
    variant = "loop" => Len(debugLogs) <= 200

====
